---- MODULE Spec2Model ----
(***************************************************************************)
(* DeepSpyce binary codec layer: the single-value packer/decoder           *)
(* (_my_fmt, _my_pack, _my_decode), the sentinel-delimited header codec    *)
(* (dict_to_bytes, bytes_to_dict), the array codec (data_to_bytes,         *)
(* bytes_to_data) and the filterbank writer (write_filterbank on top of    *)
(* write_to_file / open_file).                                             *)
(*                                                                         *)
(* Representation.  A byte is a number in 0..255 and a byte string a       *)
(* sequence of bytes.  A text is a sequence of Unicode code points.  A     *)
(* Python value is a record tagged by kind: Integer (field v), a           *)
(* FloatingPoint (field bits: its IEEE-754 binary64 image, most            *)
(* significant byte first), Text (field s) or Null.  A dict is a sequence  *)
(* of [key, value] records with pairwise distinct keys, in insertion       *)
(* order.  The host is little-endian, as the byte strings of               *)
(* tests/test_misc.py assume.                                              *)
(***************************************************************************)
EXTENDS Integers, Sequences, FiniteSets, TLC

\* ------------------------------------------------------------------------
\* Bounds of the model
\* ------------------------------------------------------------------------
MaxEntries == 2
MaxCols == 2
MaxRecords == 2

\* ------------------------------------------------------------------------
\* Sequences and bytes
\* ------------------------------------------------------------------------
Min(a, b) == IF a <= b THEN a ELSE b

Range(s) == {s[i] : i \in DOMAIN s}

Reverse(s) == [i \in 1..Len(s) |-> s[Len(s) + 1 - i]]

\* the slice s[from : from + n] of Python, positions counted from 0
Slice(s, from, n) == SubSeq(s, from + 1, Min(from + n, Len(s)))

RECURSIVE Concat(_)
Concat(ss) == IF ss = <<>> THEN <<>> ELSE Head(ss) \o Concat(Tail(ss))

\* v as w bytes, least significant first, two's complement (\div floors)
RECURSIVE IntToLE(_, _)
IntToLE(v, w) == IF w = 0 THEN <<>> ELSE <<v % 256>> \o IntToLE(v \div 256, w - 1)

\* the unsigned value of a little-endian byte string
RECURSIVE LEToNat(_)
LEToNat(bs) == IF bs = <<>> THEN 0 ELSE Head(bs) + 256 * LEToNat(Tail(bs))

\* the signed (two's complement) value of a little-endian byte string
LEToInt(bs) ==
    IF bs[Len(bs)] < 128
    THEN LEToNat(bs)
    ELSE -(1 + LEToNat([i \in 1..Len(bs) |-> 255 - bs[i]]))

\* ------------------------------------------------------------------------
\* str.encode() and bytes.decode(): UTF-8
\* ------------------------------------------------------------------------
Utf8Char(c) ==
    IF c < 128 THEN <<c>>
    ELSE IF c < 2048 THEN <<192 + (c \div 64), 128 + (c % 64)>>
    ELSE IF c < 65536
         THEN <<224 + (c \div 4096), 128 + ((c \div 64) % 64), 128 + (c % 64)>>
         ELSE <<240 + (c \div 262144), 128 + ((c \div 4096) % 64),
                128 + ((c \div 64) % 64), 128 + (c % 64)>>

RECURSIVE str_encode(_)
str_encode(s) == IF s = <<>> THEN <<>> ELSE Utf8Char(Head(s)) \o str_encode(Tail(s))

IsCont(b) == b >= 128 /\ b < 192

\* the one element of a set of one element
TheOne(S) == CHOOSE x \in S : TRUE

\* the text of the bytes bs, whose characters start at the positions starts;
\* [ok, s]: ok = FALSE is UnicodeDecodeError
DecodeFrom(bs, starts) ==
    LET \* the bytes a character takes, by its first byte; 0: no first byte
        n(i) == IF bs[i] < 128 THEN 1
                ELSE IF bs[i] >= 194 /\ bs[i] < 224 THEN 2
                ELSE IF bs[i] >= 224 /\ bs[i] < 240 THEN 3
                ELSE IF bs[i] >= 240 /\ bs[i] < 245 THEN 4
                ELSE 0
        wellformed(i) ==
            /\ n(i) > 0
            /\ i + n(i) - 1 <= Len(bs)
            /\ \A k \in (i + 1)..(i + n(i) - 1) : IsCont(bs[k])
            /\ i + n(i) <= Len(bs) => ~IsCont(bs[i + n(i)])
            /\ (bs[i] = 224 => bs[i + 1] >= 160)
            /\ (bs[i] = 237 => bs[i + 1] < 160)
            /\ (bs[i] = 240 => bs[i + 1] >= 144)
            /\ (bs[i] = 244 => bs[i + 1] < 144)
        c(i) == IF n(i) = 1 THEN bs[i]
                ELSE IF n(i) = 2 THEN (bs[i] - 192) * 64 + (bs[i + 1] - 128)
                ELSE IF n(i) = 3
                     THEN (bs[i] - 224) * 4096 + (bs[i + 1] - 128) * 64
                          + (bs[i + 2] - 128)
                     ELSE (bs[i] - 240) * 262144 + (bs[i + 1] - 128) * 4096
                          + (bs[i + 2] - 128) * 64 + (bs[i + 3] - 128)
        good == /\ bs # <<>> => ~IsCont(bs[1])
                /\ \A k \in DOMAIN starts : wellformed(starts[k])
    IN IF good THEN [ok |-> TRUE, s |-> [k \in DOMAIN starts |-> c(starts[k])]]
       ELSE [ok |-> FALSE, s |-> <<>>]

\* bytes.decode(): a character starts at every byte that is no continuation
\* byte
bytes_decode(bs) ==
    TheOne(UNION {{DecodeFrom(b, starts) :
                      starts \in {SelectSeq([i \in 1..Len(b) |-> i],
                                           LAMBDA i : ~IsCont(b[i]))}} : b \in {bs}})

\* ------------------------------------------------------------------------
\* Python values
\* ------------------------------------------------------------------------
Null == [kind |-> "Null"]
Integer(n) == [kind |-> "Integer", v |-> n]
FloatingPoint(image) == [kind |-> "FloatingPoint", bits |-> image]
Text(t) == [kind |-> "Text", s |-> t]

\* the binary64 image of the integer n, most significant byte first
RECURSIVE Log2(_)
Log2(n) == IF n <= 1 THEN 0 ELSE 1 + Log2(n \div 2)

RECURSIVE Pow2(_)
Pow2(e) == IF e = 0 THEN 1 ELSE 2 * Pow2(e - 1)

FloatOfInt(n) ==
    IF n = 0 THEN <<0, 0, 0, 0, 0, 0, 0, 0>>
    ELSE LET m == IF n < 0 THEN -n ELSE n
             e == Log2(m)
             frac == m - Pow2(e)
             \* the 52 fraction bits, most significant first
             bit(i) == IF i <= e THEN (frac \div Pow2(e - i)) % 2 ELSE 0
             nib(k) == 8 * bit(4 * k + 1) + 4 * bit(4 * k + 2)
                       + 2 * bit(4 * k + 3) + bit(4 * k + 4)
             expo == 1023 + e
         IN <<(IF n < 0 THEN 128 ELSE 0) + (expo \div 16),
              (expo % 16) * 16 + nib(0)>>
            \o [j \in 1..6 |-> 16 * nib(2 * j - 1) + nib(2 * j)]

\* ------------------------------------------------------------------------
\* ValueCodec: _my_fmt, _my_pack, _my_decode
\* ------------------------------------------------------------------------
\* np.dtype(t).char for the Python types a type map holds
TypeChar(t) == CASE t = "int" -> "l" [] t = "float" -> "d" [] t = "str" -> "U"

\* type(value)
TypeOf(value) ==
    CASE value.kind = "Integer" -> "int"
      [] value.kind = "FloatingPoint" -> "float"
      [] value.kind = "Text" -> "str"

\* struct.calcsize of a standard-size format character
CalcSize(ch) == CASE ch = "l" -> 4 [] ch = "I" -> 4 [] ch = "d" -> 8

\* dtype.newbyteorder(order).byteorder + char; order is "|" (keep) or "S" (swap)
my_fmt(dtype, order) ==
    [bo |-> IF order = "S" THEN ">" ELSE "=", ch |-> TypeChar(dtype)]

\* the byte-order character is ignored: every field is laid out natively
OrderedNative(le, bo) == le

\* a little-endian image in the byte order of a format
Ordered(le, bo) == IF bo = ">" THEN Reverse(le) ELSE le

StructError == "struct.error"
TypeError == "TypeError"
UnicodeDecodeError == "UnicodeDecodeError"

Packed(bs) == [ok |-> TRUE, bytes |-> bs, err |-> ""]
PackFails(e) == [ok |-> FALSE, bytes |-> <<>>, err |-> e]

\* struct.pack(bo + ch, value) for a numeric format character
StructPack(bo, ch, value) ==
    CASE ch = "l" ->
           IF value.kind = "Integer"
           THEN Packed(Ordered(IntToLE(value.v, 4), bo))
           ELSE PackFails(StructError)
      [] ch = "d" ->
           IF value.kind = "FloatingPoint" THEN Packed(Ordered(Reverse(value.bits), bo))
           ELSE IF value.kind = "Integer"
                THEN Packed(Ordered(Reverse(FloatOfInt(value.v)), bo))
                ELSE PackFails(StructError)

\* the length prefix counts one character too many
TextPrefixOffByOne(s) == Len(s) + 1

\* len(value) of a str: its number of characters (code points)
TextPrefix(s) == Len(s)

\* _my_pack(value, fmt, order); fmt is "None" or a Python type
my_pack(value, fmt, order) ==
    LET f == my_fmt(IF fmt = "None" THEN TypeOf(value) ELSE fmt, order)
    IN IF f.ch = "U"
       THEN IF value.kind = "Text"
            THEN Packed(Ordered(IntToLE(TextPrefix(value.s), 4), f.bo)
                        \o str_encode(value.s))
            ELSE PackFails(TypeError)
       ELSE StructPack(f.bo, f.ch, value)

Decoded(v, p) == [ok |-> TRUE, val |-> v, pos |-> p, err |-> ""]
DecodeFails(e, p) == [ok |-> FALSE, val |-> Null, pos |-> p, err |-> e]

\* how many bytes encoded.read(n) returns at cursor pos, n the unsigned value
\* of the little-endian image le: the stream is shorter than 2^31 bytes
ReadCount(le, stream, pos) ==
    IF le[4] >= 128 THEN Len(stream) - pos
    ELSE Min(LEToNat(le), Len(stream) - pos)

\* _my_decode(encoded, fmt, order) on a stream whose cursor is at pos
my_decode(stream, pos, fmt, order) ==
    LET f == my_fmt(fmt, order)
    IN IF f.ch = "U"
       THEN LET head == Slice(stream, pos, 4)
            IN IF Len(head) < 4 THEN DecodeFails(StructError, pos + Len(head))
               ELSE LET n == ReadCount(Ordered(head, f.bo), stream, pos + 4)
                        body == bytes_decode(Slice(stream, pos + 4, n))
                    IN IF body.ok THEN Decoded(Text(body.s), pos + 4 + n)
                       ELSE DecodeFails(UnicodeDecodeError, pos + 4 + n)
       ELSE LET w == CalcSize(f.ch)
                raw == Slice(stream, pos, w)
            IN IF Len(raw) < w THEN DecodeFails(StructError, pos + Len(raw))
               ELSE IF f.ch = "l"
                    THEN Decoded(Integer(LEToInt(Ordered(raw, f.bo))), pos + w)
                    ELSE Decoded(FloatingPoint(Reverse(Ordered(raw, f.bo))), pos + w)

\* ------------------------------------------------------------------------
\* dicts: headers and type maps
\* ------------------------------------------------------------------------
HEADER_START == <<72, 69, 65, 68, 69, 82, 95, 83, 84, 65, 82, 84>>
HEADER_END == <<72, 69, 65, 68, 69, 82, 95, 69, 78, 68>>

Keys(d) == {d[i].key : i \in DOMAIN d}

\* d[key] = value: a new key is appended, a known key keeps its position
DictSet(d, k, v) ==
    IF k \in Keys(d)
    THEN [i \in DOMAIN d |-> IF d[i].key = k THEN [key |-> k, value |-> v] ELSE d[i]]
    ELSE Append(d, [key |-> k, value |-> v])

\* key_fmts.get(key, default); a type map is a function from its keys to types
FmtGet(key_fmts, k, default) == IF k \in DOMAIN key_fmts THEN key_fmts[k] ELSE default

\* ------------------------------------------------------------------------
\* HeaderCodec: dict_to_bytes, bytes_to_dict
\* ------------------------------------------------------------------------
SwapOrder(swap) == IF swap THEN "S" ELSE "|"

\* no key is taken for a sentinel
IsSentinelKeyNever(key) == FALSE

\* key in ["HEADER_START", "HEADER_END"]
IsSentinelKey(key) == key \in {HEADER_START, HEADER_END}

\* the loop of dict_to_bytes over kvheader, from entry i on
RECURSIVE PackEntries(_, _, _, _)
PackEntries(kv, i, key_fmts, order) ==
    IF i > Len(kv) THEN Packed(<<>>)
    ELSE IF IsSentinelKey(kv[i].key)
         THEN PackEntries(kv, i + 1, key_fmts, order)
         ELSE LET k == my_pack(Text(kv[i].key), "str", order)
                  v == my_pack(kv[i].value, FmtGet(key_fmts, kv[i].key, "None"), order)
              IN IF ~v.ok THEN v
                 ELSE LET rest == PackEntries(kv, i + 1, key_fmts, order)
                      IN IF rest.ok THEN Packed(k.bytes \o v.bytes \o rest.bytes)
                         ELSE rest

dict_to_bytes(header, key_fmts, swap) ==
    LET kvheader == SelectSeq(header, LAMBDA e : e.value # Null)
        order == SwapOrder(swap)
        body == PackEntries(kvheader, 1, key_fmts, order)
    IN IF ~body.ok THEN body
       ELSE Packed(my_pack(Text(HEADER_START), "str", order).bytes
                   \o body.bytes
                   \o my_pack(Text(HEADER_END), "str", order).bytes)

SwapWarning == "WARNING. Trying swapping bytes order..."
StartWarning == "WARNING. Header does not start with 'HEADER_START'"

RECURSIVE ReadPairs(_, _, _, _, _, _)

\* the error of a read in the loop is met by a new start at offset 0
RaisedRewound(header, r) == [ok |-> FALSE, header |-> header, pos |-> 0, err |-> r.err]

\* a read in the loop raises: nothing in the loop catches it, the call ends
\* with the cursor where the read left it
Raised(header, r) == [ok |-> FALSE, header |-> header, pos |-> r.pos, err |-> r.err]

\* header[key] = val, then the loop goes on
ReadValue(stream, key_fmts, order, bad_header, header, k, v) ==
    IF ~v.ok
    THEN Raised(header, v)
    ELSE ReadPairs(stream, v.pos, key_fmts, order, bad_header,
                   DictSet(header, k.val.s, v.val))

\* the key read ends the loop when it is HEADER_END, else its value is read
ReadKey(stream, key_fmts, order, bad_header, header, k) ==
    IF ~k.ok
    THEN Raised(header, k)
    ELSE IF k.val.s = HEADER_END
         THEN [ok |-> TRUE, header |-> header, pos |-> k.pos, err |-> ""]
         ELSE ReadValue(stream, key_fmts, order, bad_header, header, k,
                        my_decode(stream, k.pos, FmtGet(key_fmts, k.val.s, "float"),
                                  order))

\* the end of the stream goes unnoticed
ExhaustedNever(stream, pos) == FALSE

\* encoded.read(1) == b"": nothing is left at the cursor
Exhausted(stream, pos) == pos >= Len(stream)

\* the while loop of bytes_to_dict
ReadPairs(stream, pos, key_fmts, order, bad_header, header) ==
    IF bad_header /\ Exhausted(stream, pos)
    THEN [ok |-> TRUE, header |-> header, pos |-> pos, err |-> ""]
    ELSE ReadKey(stream, key_fmts, order, bad_header, header,
                 my_decode(stream, pos, "str", order))

\* the retry keeps the directive of the first attempt
RetryOrderSame(swap) == IF swap THEN "S" ELSE "|"

\* swap = "|" if swap == "S" else "S": the directive of the retry
RetryOrder(swap) == IF swap THEN "|" ELSE "S"

\* the pair read in place of the start sentinel is lost
FirstPairLost(key0, val0) == <<>>

\* header[key0] = val0 on the empty dict
FirstPair(key0, val0) == <<[key |-> key0, value |-> val0]>>

\* what bytes_to_dict gives back.  [ok, header, pos, err, warnings, order]:
\* header is the dict returned when ok, pos the cursor the call leaves, order
\* the directive the pairs were read with
HeaderFails(e, p, w, order) ==
    [ok |-> FALSE, header |-> <<>>, pos |-> p, err |-> e, warnings |-> w,
     order |-> order]

\* return header, or the error the loop raised
HeaderOf(r, w, order) ==
    IF r.ok
    THEN [ok |-> TRUE, header |-> r.header, pos |-> r.pos, err |-> "",
          warnings |-> w, order |-> order]
    ELSE HeaderFails(r.err, r.pos, w, order)

\* the header does not start with HEADER_START: key0 and val0 are its first pair
BadHeader(stream, key_fmts, order, w, key0, val0) ==
    IF ~val0.ok THEN HeaderFails(val0.err, val0.pos, w, order)
    ELSE HeaderOf(ReadPairs(stream, val0.pos, key_fmts, order, TRUE,
                            FirstPair(key0.val.s, val0.val)), w, order)

\* bytes_to_dict once key0 is read with the directive order
FromKey0(stream, key_fmts, order, w, key0) ==
    IF ~key0.ok THEN HeaderFails(key0.err, key0.pos, w, order)
    ELSE IF key0.val.s # HEADER_START
         THEN BadHeader(stream, key_fmts, order, Append(w, StartWarning), key0,
                        my_decode(stream, key0.pos,
                                  FmtGet(key_fmts, key0.val.s, "float"), order))
         ELSE HeaderOf(ReadPairs(stream, key0.pos, key_fmts, order, FALSE, <<>>),
                       w, order)

\* the try around the first read: first is what it gave
TryKey0(stream, key_fmts, swap, first) ==
    IF ~first.ok /\ first.err = UnicodeDecodeError
    THEN FromKey0(stream, key_fmts, RetryOrder(swap), <<SwapWarning>>,
                  my_decode(stream, 0, "str", RetryOrder(swap)))
    ELSE FromKey0(stream, key_fmts, SwapOrder(swap), <<>>, first)

\* bytes_to_dict(encoded, key_fmts, swap) on a stream whose cursor is at pos0
bytes_to_dict(stream, pos0, key_fmts, swap) ==
    TryKey0(stream, key_fmts, swap, my_decode(stream, pos0, "str", SwapOrder(swap)))

\* ------------------------------------------------------------------------
\* The sentinel entries of a header dict: io/header.py
\* ------------------------------------------------------------------------
\* keys.index(key) if key in keys else None; positions count from 0, -1 is
\* None here
KeyLoc(dicc, key) ==
    IF \E i \in DOMAIN dicc : dicc[i].key = key
    THEN (CHOOSE i \in DOMAIN dicc : dicc[i].key = key) - 1
    ELSE -1

\* _check_key_pos(dicc, key, pos): True, False, or None for a missing key
check_key_pos(dicc, key, pos) ==
    IF KeyLoc(dicc, key) = -1 THEN "None"
    ELSE IF KeyLoc(dicc, key) = pos THEN "True" ELSE "False"

\* "if start and (header[key] is not None): start = False"
NullChecked(header, key, found) ==
    IF found = "True" /\ header[KeyLoc(header, key) + 1].value # Null THEN "False"
    ELSE found

\* check_header_start_end(header, verb): the tuple (start, end)
check_header_start_end(header) ==
    <<NullChecked(header, HEADER_START, check_key_pos(header, HEADER_START, 0)),
      NullChecked(header, HEADER_END,
                  check_key_pos(header, HEADER_END, Len(header) - 1))>>

\* the sentinel entries of the header are kept where they are
RebuiltUnfiltered(header) ==
    <<[key |-> HEADER_START, value |-> Null]>> \o header
        \o <<[key |-> HEADER_END, value |-> Null]>>

\* the dict fixed_header_start_end builds: HEADER_START, the entries whose key
\* is no sentinel, HEADER_END
Rebuilt(header) ==
    <<[key |-> HEADER_START, value |-> Null]>>
        \o SelectSeq(header, LAMBDA e : e.key \notin {HEADER_START, HEADER_END})
        \o <<[key |-> HEADER_END, value |-> Null]>>

\* fixed_header_start_end(header, check): the header itself when check is set
\* and both checks are True
fixed_header_start_end(header, check) ==
    IF check /\ check_header_start_end(header) = <<"True", "True">> THEN header
    ELSE Rebuilt(header)

\* ------------------------------------------------------------------------
\* ArrayCodec: data_to_bytes, bytes_to_data
\*
\* An element type is a record [kind, itemsize, alignment, bo]; kind is "i"
\* (signed integer), "f" (binary64) or "c" (complex: two binary64 halves), bo
\* is "<" or ">".  An ndarray is [dt, shape, flat]: shape is <<n>> or <<c, r>>,
\* flat the elements in C (row-major) order, each element the sequence of its
\* parts and each part a byte string, most significant byte first.  The array
\* a caller hands over is [shape, vals]: vals its integer values in C order.
\* ------------------------------------------------------------------------
\* np.dtype(fmt) on the x86-64 host
np_dtype(fmt) ==
    CASE fmt = "i1" -> [kind |-> "i", itemsize |-> 1, alignment |-> 1, bo |-> "<"]
      [] fmt = "<i2" -> [kind |-> "i", itemsize |-> 2, alignment |-> 2, bo |-> "<"]
      [] fmt = ">i4" -> [kind |-> "i", itemsize |-> 4, alignment |-> 4, bo |-> ">"]
      [] fmt = "<i8" -> [kind |-> "i", itemsize |-> 8, alignment |-> 8, bo |-> "<"]
      [] fmt = ">i8" -> [kind |-> "i", itemsize |-> 8, alignment |-> 8, bo |-> ">"]
      [] fmt = "<f8" -> [kind |-> "f", itemsize |-> 8, alignment |-> 8, bo |-> "<"]
      [] fmt = "<c16" -> [kind |-> "c", itemsize |-> 16, alignment |-> 8, bo |-> "<"]
      [] fmt = "None" -> [kind |-> "f", itemsize |-> 8, alignment |-> 8, bo |-> "<"]

\* dtype.newbyteorder("S")
newbyteorder(dt) == [dt EXCEPT !.bo = IF dt.bo = "<" THEN ">" ELSE "<"]

\* the number of separately ordered parts of an element
Parts(dt) == IF dt.kind = "c" THEN 2 ELSE 1

\* the element of type dt that holds the integer v
Element(v, dt) ==
    CASE dt.kind = "i" -> <<Reverse(IntToLE(v, dt.itemsize))>>
      [] dt.kind = "f" -> <<FloatOfInt(v)>>
      [] dt.kind = "c" -> <<FloatOfInt(v), FloatOfInt(0)>>

\* the bytes of an element in memory, and back
ElementBytes(e, dt) ==
    Concat([k \in 1..Len(e) |-> IF dt.bo = "<" THEN Reverse(e[k]) ELSE e[k]])

ElementOf(bs, dt) ==
    LET w == dt.itemsize \div Parts(dt)
    IN [k \in 1..Parts(dt) |->
           LET part == SubSeq(bs, (k - 1) * w + 1, k * w)
           IN IF dt.bo = "<" THEN Reverse(part) ELSE part]

Size(shape) == IF Len(shape) = 1 THEN shape[1] ELSE shape[1] * shape[2]

\* np.asarray(data, dtype=dt) of the caller's array
asarray(data, dt) ==
    [dt |-> dt, shape |-> data.shape,
     flat |-> [i \in 1..Len(data.vals) |-> Element(data.vals[i], dt)]]

\* the position in flat of the k-th element (k from 0) in traversal order
FlatIndex(shape, order, k) ==
    IF order = "C" \/ Len(shape) = 1 THEN k + 1
    ELSE (k % shape[1]) * shape[2] + (k \div shape[1]) + 1

\* ndarray.tobytes(order)
tobytes(arr, order) ==
    Concat([k \in 1..Size(arr.shape) |->
               ElementBytes(arr.flat[FlatIndex(arr.shape, order, k - 1)], arr.dt)])

\* the dtype data_to_bytes converts to; with fmt None the array keeps the dtype
\* inferred from the data (src_fmt) unless swap: np.dtype(None) is float64
EncodeDtype(src_fmt, fmt, swap) ==
    IF swap THEN newbyteorder(np_dtype(fmt))
    ELSE IF fmt = "None" THEN np_dtype(src_fmt) ELSE np_dtype(fmt)

\* data_to_bytes(data, fmt, order, swap); data.fmt is the dtype of the input
data_to_bytes(data, fmt, order, swap) ==
    tobytes(asarray(data, EncodeDtype(data.fmt, fmt, swap)), order)

ValueError == "ValueError"
ZeroDivisionError == "ZeroDivisionError"

ArrayFails(e) == [ok |-> FALSE, err |-> e, shape |-> <<>>, flat |-> <<>>]

\* np.frombuffer(encoded, dtype=dt): the elements, when the size divides
frombuffer(encoded, dt) ==
    [k \in 1..(Len(encoded) \div dt.itemsize) |->
        ElementOf(SubSeq(encoded, (k - 1) * dt.itemsize + 1, k * dt.itemsize), dt)]

\* data.reshape(n_cols, n_records, order=order), flat in C order
reshape(data, n_cols, n_records, order) ==
    [p \in 1..(n_cols * n_records) |->
        LET i == (p - 1) \div n_records
            j == (p - 1) % n_records
        IN IF order = "C" THEN data[p] ELSE data[i + j * n_cols + 1]]

\* the element width bytes_to_data divides by
BytesPerData(dt) == dt.alignment

\* bytes_to_data(encoded, n_cols, fmt, order, swap); a readable is read from
\* its cursor pos to its end, bytes are taken whole (pos = 0)
bytes_to_data(stream, pos, n_cols, fmt, order, swap) ==
    LET encoded == SubSeq(stream, pos + 1, Len(stream))
        dt == IF swap THEN newbyteorder(np_dtype(fmt)) ELSE np_dtype(fmt)
        total_bytes == Len(encoded)
    IN IF total_bytes % dt.itemsize # 0 THEN ArrayFails(ValueError)
       ELSE IF n_cols = 0 THEN ArrayFails(ZeroDivisionError)
       ELSE LET data == frombuffer(encoded, dt)
                n_records == (total_bytes \div n_cols) \div BytesPerData(dt)
            IN IF n_cols * n_records # Len(data) THEN ArrayFails(ValueError)
               ELSE [ok |-> TRUE, err |-> "",
                     shape |-> IF n_cols = 1 THEN <<n_records>>
                               ELSE <<n_cols, n_records>>,
                     flat |-> reshape(data, n_cols, n_records, order)]

\* ------------------------------------------------------------------------
\* io/filterbank.py: the built-in type map
\* ------------------------------------------------------------------------
header_types ==
    <<116, 101, 108, 101, 115, 99, 111, 112, 101, 95, 105, 100>> :> "int"   \* telescope_id
    @@ <<109, 97, 99, 104, 105, 110, 101, 95, 105, 100>> :> "int"   \* machine_id
    @@ <<100, 97, 116, 97, 95, 116, 121, 112, 101>> :> "int"   \* data_type
    @@ <<114, 97, 119, 100, 97, 116, 97, 102, 105, 108, 101>> :> "str"   \* rawdatafile
    @@ <<115, 111, 117, 114, 99, 101, 95, 110, 97, 109, 101>> :> "str"   \* source_name
    @@ <<98, 97, 114, 121, 99, 101, 110, 116, 114, 105, 99>> :> "int"   \* barycentric
    @@ <<112, 117, 108, 115, 97, 114, 99, 101, 110, 116, 114, 105, 99>> :> "int"   \* pulsarcentric
    @@ <<97, 122, 95, 115, 116, 97, 114, 116>> :> "float"   \* az_start
    @@ <<122, 97, 95, 115, 116, 97, 114, 116>> :> "float"   \* za_start
    @@ <<115, 114, 99, 95, 114, 97, 106>> :> "float"   \* src_raj
    @@ <<115, 114, 99, 95, 100, 101, 106>> :> "float"   \* src_dej
    @@ <<116, 115, 116, 97, 114, 116>> :> "float"   \* tstart
    @@ <<116, 115, 97, 109, 112>> :> "float"   \* tsamp
    @@ <<110, 98, 105, 116, 115>> :> "int"   \* nbits
    @@ <<102, 99, 104, 49>> :> "float"   \* fch1
    @@ <<102, 111, 102, 102>> :> "float"   \* foff
    @@ <<110, 99, 104, 97, 110, 115>> :> "int"   \* nchans
    @@ <<110, 105, 102, 115>> :> "int"   \* nifs
    @@ <<114, 101, 102, 100, 109>> :> "float"   \* refdm
    @@ <<112, 101, 114, 105, 111, 100>> :> "float"   \* period

rawdatafile == <<114, 97, 119, 100, 97, 116, 97, 102, 105, 108, 101>>
nbits == <<110, 98, 105, 116, 115>>
fch1 == <<102, 99, 104, 49>>
source_name == <<115, 111, 117, 114, 99, 101, 95, 110, 97, 109, 101>>
\* "MAGICN", a key the built-in map does not hold (tests/test_io.py)
MAGICN == <<77, 65, 71, 73, 67, 78>>

\* ------------------------------------------------------------------------
\* Validation: check_dict_types, check_header
\* ------------------------------------------------------------------------
UnboundLocalError == "UnboundLocalError"

\* "WARNING. Key %s value should be type %s"
TypeWarning(key, dtype) == [kind |-> "type", key |-> key, dtype |-> dtype]

\* "WARNING. Unexpected key: %s"
KeyWarning(key) == [kind |-> "unexpected", key |-> key]

\* isinstance(value, dtype) for a value that is not None
IsInstance(value, dtype) == TypeOf(value) = dtype

\* the for loop of check_dict_types from entry i on; good is "unbound" until
\* the first assignment to it
RECURSIVE CheckEntries(_, _, _, _, _, _)
CheckEntries(header, i, key_fmts, warn, good, warned) ==
    IF i > Len(header) THEN [good |-> good, warnings |-> warned]
    ELSE LET key == header[i].key
             value == header[i].value
         IN IF key \in DOMAIN key_fmts
            THEN IF value # Null /\ ~IsInstance(value, key_fmts[key])
                 THEN CheckEntries(header, i + 1, key_fmts, warn, "False",
                                   IF warn
                                   THEN Append(warned, TypeWarning(key, key_fmts[key]))
                                   ELSE warned)
                 ELSE CheckEntries(header, i + 1, key_fmts, warn, good, warned)
            ELSE CheckEntries(header, i + 1, key_fmts, warn, "False",
                              IF warn THEN Append(warned, KeyWarning(key)) ELSE warned)

\* check_dict_types(header, key_fmts, warn): [ok, good, err, warnings]; ok
\* tells whether the call returned, good is the value returned
check_dict_types(header, key_fmts, warn) ==
    LET r == CheckEntries(header, 1, key_fmts, warn, "unbound", <<>>)
    IN IF r.good = "unbound"
       THEN [ok |-> FALSE, good |-> FALSE, err |-> UnboundLocalError,
             warnings |-> r.warnings]
       ELSE [ok |-> TRUE, good |-> r.good = "True", err |-> "",
             warnings |-> r.warnings]

\* check_header(header): the same loop over _header_types, always warning
check_header(header) == check_dict_types(header, header_types, TRUE)

\* ------------------------------------------------------------------------
\* The inputs the calls are made with
\* ------------------------------------------------------------------------
\* 8.0, the value of tests/test_misc.py
Float8 == <<64, 32, 0, 0, 0, 0, 0, 0>>

\* "x" and the two-byte character U+00E9
TextX == <<120>>
TextE == <<233>>

HeaderKeys == {nbits, fch1, rawdatafile}

HeaderValues ==
    {Integer(-2), FloatingPoint(Float8), Text(TextX), Text(TextE), Null}

Entries == [key : HeaderKeys, value : HeaderValues]

\* the dicts of at most MaxEntries entries: the keys of a dict are distinct
Headers ==
    {h \in UNION {[1..n -> Entries] : n \in 0..MaxEntries} :
        \A i, j \in DOMAIN h : h[i].key = h[j].key => i = j}

\* headers that carry the sentinel keys themselves: around an ordinary header,
\* as in tests/test_misc.py, and out of place with values of their own
SentinelHeaders ==
    {<<[key |-> HEADER_START, value |-> Null]>> \o h
        \o <<[key |-> HEADER_END, value |-> Null]>> : h \in {g \in Headers : Len(g) <= 1}}
    \cup {<<[key |-> HEADER_END, value |-> Integer(-2)],
            [key |-> fch1, value |-> Null],
            [key |-> nbits, value |-> Integer(-2)],
            [key |-> HEADER_START, value |-> Text(TextX)]>>}

\* the headers of the tests of the sentinel entries: one sentinel alone, the
\* two swapped, both with values of their own around a number
StartEndHeaders ==
    {<<[key |-> HEADER_START, value |-> Null]>>,
     <<[key |-> HEADER_END, value |-> Null]>>,
     <<[key |-> HEADER_END, value |-> Null], [key |-> HEADER_START, value |-> Null]>>,
     <<[key |-> HEADER_START, value |-> Integer(-2)],
       [key |-> MAGICN, value |-> FloatingPoint(Float8)],
       [key |-> HEADER_END, value |-> Text(TextX)]>>,
     <<[key |-> HEADER_START, value |-> Null],
       [key |-> HEADER_END, value |-> Null],
       [key |-> MAGICN, value |-> FloatingPoint(Float8)]>>}
    \cup SentinelHeaders \cup Headers

\* the type maps a caller passes: none, the filterbank map, a partial one
TypeMaps == {<<>>, header_types, (nbits :> "int")}

\* the value of element i of a caller's array: 1, -2, 3, -4, ...
ValAt(i) == IF i % 2 = 1 THEN i ELSE -i

Shapes ==
    {<<n>> : n \in 0..MaxRecords}
    \cup {<<c, r>> : c \in 1..MaxCols, r \in 0..MaxRecords}

\* the arrays a caller passes, of the dtype numpy infers for them
Arrays ==
    {[fmt |-> f, shape |-> sh, vals |-> [i \in 1..Size(sh) |-> ValAt(i)]] :
        f \in {"<i8", ">i4"}, sh \in Shapes}

Fmts == {"i1", "<i2", ">i4", "<i8", ">i8", "<f8", "<c16"}

Orders == {"C", "F"}

\* ------------------------------------------------------------------------
\* State
\* ------------------------------------------------------------------------
VARIABLES
    op,       \* the call made last
    args,     \* its arguments
    ret,      \* what it returned or raised
    stream,   \* the bytes in flight from an encoder to a decoder
    files,    \* the file system: the bytes of the file at each path
    heap      \* the dict objects: the caller's, the module's, a call's own

vars == <<op, args, ret, stream, files, heap>>

NoFile == <<-1>>
Nothing == [kind |-> "none"]

\* the paths of the model: "x.fil", "y.fil" and "d/x.fil"
PathX == <<120, 46, 102, 105, 108>>
PathY == <<121, 46, 102, 105, 108>>
PathDX == <<100, 47, 120, 46, 102, 105, 108>>
Paths == {PathX, PathY, PathDX}

\* The dict objects, by name.  header and key_fmts are the dicts the caller
\* holds, _header_types the module-level dict of io/filterbank.py,
\* default_header and default_key_fmts the dict() a "header: dict = dict()" or
\* "key_fmts: dict = dict()" parameter is bound to when the argument is left
\* out: made once, when the def statement runs, and the same object in every
\* later call.  kvheader, merged, decoded and fheader are the dicts a call
\* makes for itself.  A header is a sequence of entries, a type map and
\* fheader a function from keys.
CallerObjects == {"header", "key_fmts"}
ModuleObjects == {"_header_types", "default_header", "default_key_fmts"}
OwnObjects == {"kvheader", "merged", "decoded", "fheader"}

\* the objects once the module is imported and the caller has made its header
\* and its overrides
Objects(header, key_fmts) ==
    [id \in CallerObjects \cup ModuleObjects \cup OwnObjects |->
        CASE id = "header" -> header
          [] id = "key_fmts" -> key_fmts
          [] id = "_header_types" -> header_types
          [] OTHER -> <<>>]

\* the bytes a truncated header stream lacks
Cuts == {1, 11, 15}

\* what precedes a header in a file object whose cursor is not at 0: a word
\* of 4 zero bytes
Preamble == <<0, 0, 0, 0>>

\* what follows a header in a stream: data_to_bytes(np.array([1]), ">i8")
TailBytes == <<0, 0, 0, 0, 0, 0, 0, 1>>

Init ==
    /\ op = "none"
    /\ args = Nothing
    /\ ret = Nothing
    /\ stream = Nothing
    /\ files = [p \in Paths |-> NoFile]
    /\ heap = Objects(<<>>, <<>>)

\* ------------------------------------------------------------------------
\* Calls of the codec
\* ------------------------------------------------------------------------
CallDictToBytes(h, km, sw) ==
    LET r == dict_to_bytes(h, km, sw)
    IN /\ op = "none"
       /\ stream.kind = "none"
       /\ op' = "dict_to_bytes"
       /\ args' = [header |-> h, key_fmts |-> km, swap |-> sw]
       /\ ret' = r
       /\ stream' = IF r.ok
                    THEN [kind |-> "header", bytes |-> r.bytes, header |-> h,
                          key_fmts |-> km, swap |-> sw, start |-> TRUE, end |-> TRUE,
                          intact |-> TRUE, tail |-> 0]
                    ELSE Nothing
       /\ UNCHANGED <<files, heap>>

\* no decoder has been called on the stream in flight yet
Undecoded == op \in {"none", "dict_to_bytes"}

\* a producer that writes no start sentinel: the stream of Test Case 2
DropStartSentinel ==
    /\ Undecoded
    /\ stream.kind = "header"
    /\ stream.start
    /\ stream' = [stream EXCEPT
                    !.bytes = SubSeq(@, 4 + Len(HEADER_START) + 1, Len(@)),
                    !.start = FALSE]
    /\ op' = "none"
    /\ args' = Nothing
    /\ ret' = Nothing
    /\ UNCHANGED <<files, heap>>

\* a producer that writes no end sentinel
DropEndSentinel ==
    /\ Undecoded
    /\ stream.kind = "header"
    /\ stream.end
    /\ stream.tail = 0
    /\ stream' = [stream EXCEPT
                    !.bytes = SubSeq(@, 1, Len(@) - 4 - Len(HEADER_END)),
                    !.end = FALSE]
    /\ op' = "none"
    /\ args' = Nothing
    /\ ret' = Nothing
    /\ UNCHANGED <<files, heap>>

\* a damaged file: the first byte of the first text is no text byte
CorruptFirstText ==
    /\ Undecoded
    /\ stream.kind = "header"
    /\ stream.intact
    /\ Len(stream.bytes) >= 5
    /\ stream' = [stream EXCEPT !.bytes = [@ EXCEPT ![5] = 255], !.intact = FALSE]
    /\ op' = "none"
    /\ args' = Nothing
    /\ ret' = Nothing
    /\ UNCHANGED <<files, heap>>

\* a truncated file: a whole header stream ends n bytes early, inside the
\* text of the end sentinel, inside its length or inside what precedes it
CutShort(n) ==
    /\ Undecoded
    /\ stream.kind = "header"
    /\ stream.start
    /\ stream.end
    /\ stream.intact
    /\ stream.tail = 0
    /\ stream' = [stream EXCEPT !.bytes = SubSeq(@, 1, Len(@) - n),
                                !.end = FALSE, !.intact = FALSE]
    /\ op' = "none"
    /\ args' = Nothing
    /\ ret' = Nothing
    /\ UNCHANGED <<files, heap>>

\* the bytes of an array follow the header, as in a filterbank file: the
\* one element 1 in the format ">i8"
AppendTail ==
    /\ Undecoded
    /\ stream.kind = "header"
    /\ stream.intact
    /\ stream.tail = 0
    /\ stream' = [stream EXCEPT !.bytes = @ \o TailBytes, !.tail = Len(TailBytes)]
    /\ op' = "none"
    /\ args' = Nothing
    /\ ret' = Nothing
    /\ UNCHANGED <<files, heap>>

\* the stream is decoded with the type map it was encoded with, under the
\* directive sw: the one it was encoded with or the opposite one
CallBytesToDict(sw) ==
    /\ Undecoded
    /\ stream.kind = "header"
    /\ op' = "bytes_to_dict"
    /\ args' = [key_fmts |-> stream.key_fmts, swap |-> sw]
    /\ ret' = bytes_to_dict(stream.bytes, 0, stream.key_fmts, sw)
    /\ UNCHANGED <<stream, files, heap>>

\* the stream is handed over as a file object that holds a preamble before
\* the header, its cursor behind the preamble
CallBytesToDictAtCursor(sw) ==
    /\ Undecoded
    /\ stream.kind = "header"
    /\ stream.tail = 0
    /\ op' = "bytes_to_dict(cursor)"
    /\ args' = [key_fmts |-> stream.key_fmts, swap |-> sw, cursor |-> Len(Preamble)]
    /\ ret' = bytes_to_dict(Preamble \o stream.bytes, Len(Preamble), stream.key_fmts, sw)
    /\ UNCHANGED <<stream, files, heap>>

CallDataToBytes(d, fmt, order, sw) ==
    LET bs == data_to_bytes(d, fmt, order, sw)
    IN /\ op = "none"
       /\ stream.kind = "none"
       /\ op' = "data_to_bytes"
       /\ args' = [data |-> d, fmt |-> fmt, order |-> order, swap |-> sw]
       /\ ret' = [ok |-> TRUE, bytes |-> bs]
       /\ stream' = [kind |-> "data", bytes |-> bs, data |-> d, fmt |-> fmt,
                     order |-> order, swap |-> sw]
       /\ UNCHANGED <<files, heap>>

\* the stream is decoded with the order and the directive it was encoded with
CallBytesToData(n_cols, fmt) ==
    /\ op = "data_to_bytes"
    /\ stream.kind = "data"
    /\ op' = "bytes_to_data"
    /\ args' = [n_cols |-> n_cols, fmt |-> fmt, order |-> stream.order,
                swap |-> stream.swap]
    /\ ret' = bytes_to_data(stream.bytes, 0, n_cols, fmt, stream.order, stream.swap)
    /\ UNCHANGED <<stream, files, heap>>

\* a single value is packed with the format inferred from it
CallMyPack(value, sw) ==
    LET r == my_pack(value, "None", SwapOrder(sw))
    IN /\ op = "none"
       /\ stream.kind = "none"
       /\ op' = "my_pack"
       /\ args' = [value |-> value, fmt |-> "None", order |-> SwapOrder(sw)]
       /\ ret' = r
       /\ stream' = [kind |-> "value", bytes |-> r.bytes, value |-> value,
                     fmt |-> TypeOf(value), order |-> SwapOrder(sw)]
       /\ UNCHANGED <<files, heap>>

\* the stream ends one byte earlier: a truncated file or a short read
Truncate ==
    /\ stream.kind = "value"
    /\ op # "my_decode"
    /\ stream.bytes # <<>>
    /\ stream' = [stream EXCEPT !.bytes = SubSeq(@, 1, Len(@) - 1)]
    /\ op' = "none"
    /\ args' = Nothing
    /\ ret' = Nothing
    /\ UNCHANGED <<files, heap>>

\* the value is decoded with the format and the order it was packed with
CallMyDecode ==
    /\ stream.kind = "value"
    /\ op' = "my_decode"
    /\ args' = [fmt |-> stream.fmt, order |-> stream.order]
    /\ ret' = my_decode(stream.bytes, 0, stream.fmt, stream.order)
    /\ UNCHANGED <<stream, files, heap>>

CallCheckDictTypes(h, km, warn) ==
    /\ op = "none"
    /\ stream.kind = "none"
    /\ op' = "check_dict_types"
    /\ args' = [header |-> h, key_fmts |-> km, warn |-> warn]
    /\ ret' = check_dict_types(h, km, warn)
    /\ UNCHANGED <<stream, files, heap>>

CallCheckHeader(h) ==
    /\ op = "none"
    /\ stream.kind = "none"
    /\ op' = "check_header"
    /\ args' = [header |-> h, key_fmts |-> header_types, warn |-> TRUE]
    /\ ret' = check_header(h)
    /\ UNCHANGED <<stream, files, heap>>

CallFixedHeaderStartEnd(h, check) ==
    /\ op = "none"
    /\ stream.kind = "none"
    /\ op' = "fixed_header_start_end"
    /\ args' = [header |-> h, check |-> check, again |-> FALSE]
    /\ ret' = [ok |-> TRUE, header |-> fixed_header_start_end(h, check)]
    /\ UNCHANGED <<stream, files, heap>>

\* the fixed header is fixed once more
FixAgain(check) ==
    /\ op = "fixed_header_start_end"
    /\ ~args.again
    /\ args' = [header |-> ret.header, check |-> check, again |-> TRUE]
    /\ ret' = [ok |-> TRUE, header |-> fixed_header_start_end(ret.header, check)]
    /\ UNCHANGED <<op, stream, files, heap>>

CallCheckHeaderStartEnd(h) ==
    /\ op = "none"
    /\ stream.kind = "none"
    /\ op' = "check_header_start_end"
    /\ args' = [header |-> h, fixed |-> FALSE]
    /\ ret' = [ok |-> TRUE, checks |-> check_header_start_end(h)]
    /\ UNCHANGED <<stream, files, heap>>

\* the fixed header is checked
CheckFixed ==
    /\ op = "fixed_header_start_end"
    /\ op' = "check_header_start_end"
    /\ args' = [header |-> ret.header, fixed |-> TRUE]
    /\ ret' = [ok |-> TRUE, checks |-> check_header_start_end(ret.header)]
    /\ UNCHANGED <<stream, files, heap>>

\* no call has been made and nothing has been encoded yet
Idle == op = "none" /\ stream.kind = "none"

Next ==
    \/ /\ Idle
       /\ \E h \in Headers \cup SentinelHeaders, km \in TypeMaps, sw \in BOOLEAN :
             CallDictToBytes(h, km, sw)
    \/ /\ Idle
       /\ \E h \in Headers, km \in TypeMaps, warn \in BOOLEAN :
             CallCheckDictTypes(h, km, warn)
    \/ /\ Idle
       /\ \E h \in Headers : CallCheckHeader(h)
    \/ /\ Idle
       /\ \E value \in HeaderValues \ {Null}, sw \in BOOLEAN : CallMyPack(value, sw)
    \/ /\ Idle
       /\ \E h \in StartEndHeaders, check \in BOOLEAN : CallFixedHeaderStartEnd(h, check)
    \/ \E check \in BOOLEAN : FixAgain(check)
    \/ /\ Idle
       /\ \E h \in StartEndHeaders : CallCheckHeaderStartEnd(h)
    \/ CheckFixed
    \/ Truncate
    \/ CallMyDecode
    \/ DropStartSentinel
    \/ DropEndSentinel
    \/ CorruptFirstText
    \/ AppendTail
    \/ \E n \in Cuts : CutShort(n)
    \/ \E sw \in BOOLEAN : CallBytesToDict(sw)
    \/ \E sw \in BOOLEAN : CallBytesToDictAtCursor(sw)
    \/ /\ Idle
       /\ \E d \in Arrays, fmt \in Fmts \cup {"None"}, order \in Orders,
             sw \in BOOLEAN :
             CallDataToBytes(d, fmt, order, sw)
    \/ \E n_cols \in 1..(MaxCols + 1), fmt \in Fmts : CallBytesToData(n_cols, fmt)

Spec == Init /\ [][Next]_vars

\* ------------------------------------------------------------------------
\* Vocabulary of the properties
\* ------------------------------------------------------------------------
Sentinels == {HEADER_START, HEADER_END}

\* a header without its sentinel entries / without its Null entries
NonSentinel(h) == SelectSeq(h, LAMBDA e : e.key \notin Sentinels)
NonNull(h) == SelectSeq(h, LAMBDA e : e.value # Null)

\* every character of the text encodes to one byte
SingleByte(t) == \A i \in DOMAIN t : t[i] < 128

\* the entry's key is in the type map and its value is of the mapped type
Typed(e, km) == e.key \in DOMAIN km /\ e.value # Null /\ TypeOf(e.value) = km[e.key]

\* the stream in flight is a whole encoded header / one decoded just now
WholeHeader ==
    /\ stream.kind = "header"
    /\ stream.start
    /\ stream.end
    /\ stream.intact
    /\ stream.tail = 0

\* a whole header was decoded under the directive it was encoded with
DecodedHeader == op = "bytes_to_dict" /\ WholeHeader /\ args.swap = stream.swap

\* C1 as stated: every header of Integer, FloatingPoint, Text and Null values
\* is encoded, and decoding the bytes with the same type map returns it
\* (sentinel entries aside).
C1_RoundTripAnyHeader ==
    /\ (op = "dict_to_bytes" => ret.ok)
    /\ (DecodedHeader => ret.ok /\ ret.header = NonSentinel(stream.header))

\* the headers on which the round trip of C1 does hold
C1_Domain(h, km) ==
    \A i \in DOMAIN h :
        h[i].value # Null /\ h[i].key \notin Sentinels =>
            /\ Typed(h[i], km)
            /\ SingleByte(h[i].key)
            /\ (h[i].value.kind = "Text" => SingleByte(h[i].value.s))

\* C1 amended: when every non-null entry has its key in the type map, a value
\* of the mapped type and single-byte text, the header is encoded and decoding
\* returns the header without its Null-valued (and sentinel) entries, in order.
C1_RoundTripDropsNull ==
    /\ (op = "dict_to_bytes" /\ C1_Domain(args.header, args.key_fmts) => ret.ok)
    /\ (DecodedHeader /\ C1_Domain(stream.header, stream.key_fmts) =>
            ret.ok /\ ret.header = NonNull(NonSentinel(stream.header)))

\* a header with a Null entry beside a typed one went through the round trip
C1_Witness ==
    /\ DecodedHeader
    /\ C1_Domain(stream.header, stream.key_fmts)
    /\ \E i \in DOMAIN stream.header : stream.header[i].value = Null
    /\ Len(ret.header) >= 1

\* C2 as stated: a header whose entries are all non-null, with every key in the
\* type map and every value of the mapped type, decodes after encoding to the
\* same keys with the same values in the same order.
C2_Domain(h, km) == \A i \in DOMAIN h : Typed(h[i], km)

C2_RoundTripTyped ==
    /\ (op = "dict_to_bytes" /\ C2_Domain(args.header, args.key_fmts) => ret.ok)
    /\ (DecodedHeader /\ C2_Domain(stream.header, stream.key_fmts) =>
            ret.ok /\ ret.header = stream.header)

\* the shape (c, r) of a caller's array; a flat array of n elements is (1, n)
ColCount(shape) == IF Len(shape) = 1 THEN 1 ELSE shape[1]
RecCount(shape) == IF Len(shape) = 1 THEN shape[1] ELSE shape[2]

\* the element at (i, j), counted from 0, of a decoded array
At(arr, i, j) ==
    IF Len(arr.shape) = 1 THEN arr.flat[j + 1]
    ELSE arr.flat[i * arr.shape[2] + j + 1]

\* the array in flight was decoded with the element type it was encoded with
DecodedData == op = "bytes_to_data" /\ stream.kind = "data"
DecodedSameType == DecodedData /\ args.fmt = stream.fmt

\* C3 as stated: decode(encode(A, D, O), c, D, O) succeeds and holds at every
\* (i, j) the element A holds there.
C3_ArrayRoundTrip ==
    DecodedSameType /\ args.n_cols = ColCount(stream.data.shape) =>
        /\ ret.ok
        /\ \A i \in 0..(ColCount(stream.data.shape) - 1),
              j \in 0..(RecCount(stream.data.shape) - 1) :
              At(ret, i, j) =
                  Element(stream.data.vals[i * RecCount(stream.data.shape) + j + 1],
                          np_dtype(args.fmt))

\* the record count of the specification: floor(total / column_count / width)
RecordCount(total, n_cols, fmt) == (total \div n_cols) \div np_dtype(fmt).itemsize

\* C4 as stated: for every byte buffer, element type and major order the decode
\* returns a one-dimensional array of record_count elements when column_count
\* is 1 and a (column_count, record_count) matrix otherwise.
C4_OneDimensional ==
    DecodedData =>
        /\ ret.ok
        /\ ret.shape =
             IF args.n_cols = 1
             THEN <<RecordCount(Len(stream.bytes), 1, args.fmt)>>
             ELSE <<args.n_cols, RecordCount(Len(stream.bytes), args.n_cols, args.fmt)>>

\* C7 as stated: a byte count that is no multiple of column_count * width is
\* decoded without failure to the first column_count * record_count elements,
\* reshaped, the remaining bytes dropped.
C7_SilentTruncation ==
    DecodedData
    /\ Len(stream.bytes) % (args.n_cols * np_dtype(args.fmt).itemsize) # 0 =>
        LET dt == IF args.swap THEN newbyteorder(np_dtype(args.fmt))
                  ELSE np_dtype(args.fmt)
            r == RecordCount(Len(stream.bytes), args.n_cols, args.fmt)
            kept == SubSeq(stream.bytes, 1, args.n_cols * r * dt.itemsize)
        IN /\ ret.ok
           /\ ret.flat = reshape(frombuffer(kept, dt), args.n_cols, r, args.order)

\* the fields of an encoded header, in order: [n, num] is a field of n bytes
\* whose byte order follows the directive (a length prefix, a numeric value),
\* num FALSE a run of text bytes
FieldsOfText(t) == <<[n |-> 4, num |-> TRUE], [n |-> Len(str_encode(t)), num |-> FALSE]>>

FieldsOfValue(value, fmt) ==
    LET ch == TypeChar(IF fmt = "None" THEN TypeOf(value) ELSE fmt)
    IN IF ch = "U" THEN FieldsOfText(value.s) ELSE <<[n |-> CalcSize(ch), num |-> TRUE]>>

RECURSIVE FieldsOfEntries(_, _)
FieldsOfEntries(kv, km) ==
    IF kv = <<>> THEN <<>>
    ELSE FieldsOfText(Head(kv).key)
         \o FieldsOfValue(Head(kv).value, FmtGet(km, Head(kv).key, "None"))
         \o FieldsOfEntries(Tail(kv), km)

FieldsOfHeader(h, km) ==
    FieldsOfText(HEADER_START)
    \o FieldsOfEntries(NonNull(NonSentinel(h)), km)
    \o FieldsOfText(HEADER_END)

\* bs with the bytes of every num field reversed
RECURSIVE SwapFields(_, _)
SwapFields(bs, fields) ==
    IF fields = <<>> THEN bs
    ELSE LET f == Head(fields)
             field == SubSeq(bs, 1, f.n)
         IN (IF f.num THEN Reverse(field) ELSE field)
            \o SwapFields(SubSeq(bs, f.n + 1, Len(bs)), Tail(fields))

\* the type map covers the keys of the header
Covered(h, km) == \A i \in DOMAIN h : h[i].key \in DOMAIN km

RecoveryDecoded ==
    /\ op = "bytes_to_dict"
    /\ stream.kind = "header"
    /\ ~stream.start
    /\ stream.intact
    /\ stream.tail = 0
    /\ args.swap = stream.swap
    /\ stream.bytes # <<>>
    /\ C1_Domain(stream.header, stream.key_fmts)

\* C6 as stated: a stream whose first text value is not the start sentinel is
\* decoded without failure, with exactly one missing-start-sentinel
\* diagnostic, to a header that holds every pair of the stream.
C6_RecoveryKeepsPairs ==
    RecoveryDecoded =>
        /\ ret.ok
        /\ ret.warnings = <<StartWarning>>
        /\ \A i \in DOMAIN NonNull(NonSentinel(stream.header)) :
              NonNull(NonSentinel(stream.header))[i] \in Range(ret.header)

\* C6 amended: when the stream holds at least one (key, value) pair after the
\* missing start sentinel, with or without an end sentinel behind the pairs,
\* decoding does not fail, emits exactly one missing-start-sentinel diagnostic
\* and returns exactly the pairs of the stream, in order, the first included;
\* when the stream holds only the end-sentinel record, decoding emits the
\* diagnostic and fails for want of the bytes of a value.
C6_RecoveryWithPairs ==
    RecoveryDecoded =>
        IF NonNull(NonSentinel(stream.header)) # <<>>
        THEN /\ ret.ok
             /\ ret.warnings = <<StartWarning>>
             /\ ret.header = NonNull(NonSentinel(stream.header))
        ELSE /\ ~ret.ok
             /\ ret.err = StructError
             /\ ret.warnings = <<StartWarning>>

\* two pairs without start and end sentinel were decoded
C6_Witness ==
    /\ RecoveryDecoded
    /\ ~stream.end
    /\ Len(NonNull(NonSentinel(stream.header))) = 2
    /\ Len(ret.header) = 2

\* ------------------------------------------------------------------------
\* Layout of the encoded header
\* ------------------------------------------------------------------------
\* the entries that reach the output: non-null value, key not a sentinel
Kept(h) == SelectSeq(h, LAMBDA e : e.value # Null /\ e.key \notin Sentinels)

\* the key record of an entry, then its packed value
EntryRecord(e, km, order) ==
    [key |-> my_pack(Text(e.key), "str", order),
     value |-> my_pack(e.value, FmtGet(km, e.key, "None"), order)]

\* C13: whenever a header is encoded, the output is the start-sentinel key
\* record, then for each entry with a non-null value and a key that is no
\* sentinel, in input order, the key as length-prefixed text followed by the
\* packed value, then the end-sentinel key record, and nothing else; the
\* encoding fails exactly when the value of one of those entries does not
\* pack, so sentinel keys in the input, whatever their position or value, and
\* Null entries contribute neither bytes nor failures.
C13_HeaderLayout ==
    op = "dict_to_bytes" =>
        LET order == SwapOrder(args.swap)
            kept == Kept(args.header)
            recs == [i \in DOMAIN kept |-> EntryRecord(kept[i], args.key_fmts, order)]
        IN /\ ret.ok <=> \A i \in DOMAIN recs : recs[i].value.ok
           /\ ret.ok =>
                ret.bytes =
                    my_pack(Text(HEADER_START), "str", order).bytes
                    \o Concat([i \in DOMAIN recs |->
                                  recs[i].key.bytes \o recs[i].value.bytes])
                    \o my_pack(Text(HEADER_END), "str", order).bytes

\* a header with both sentinel keys out of place and carrying values, a Null
\* entry and an ordinary entry was encoded
C13_Witness ==
    /\ op = "dict_to_bytes"
    /\ ret.ok
    /\ Len(args.header) = 4
    /\ args.header[1] = [key |-> HEADER_END, value |-> Integer(-2)]
    /\ args.header[4].key = HEADER_START
    /\ Len(Kept(args.header)) = 1

\* ------------------------------------------------------------------------
\* Decoding from a stream that is too short
\* ------------------------------------------------------------------------
\* the length the prefix of a text stream declares; the stream has 4 bytes
DeclaredLength ==
    LEToNat(Ordered(SubSeq(stream.bytes, 1, 4), my_fmt(stream.fmt, stream.order).bo))

\* the stream holds fewer bytes than the value requires
TooShort ==
    IF TypeChar(stream.fmt) = "U"
    THEN \/ Len(stream.bytes) < 4
         \/ Len(stream.bytes) < 4 + DeclaredLength
    ELSE Len(stream.bytes) < CalcSize(TypeChar(stream.fmt))

\* C15 as stated: decoding a value from a stream that holds fewer bytes than
\* the value requires (fewer than 4 for a text length prefix, fewer than the
\* declared length for the text body, fewer than the fixed width for a
\* number) fails; no value is returned that was built from fewer bytes.
C15_ShortStreamFails ==
    op = "my_decode" /\ TooShort => ~ret.ok

\* ------------------------------------------------------------------------
\* The retry of the first read
\* ------------------------------------------------------------------------
\* the first read of the call and the read a retry makes
FirstRead == my_decode(stream.bytes, 0, "str", SwapOrder(args.swap))
SecondRead == my_decode(stream.bytes, 0, "str", SwapOrder(~args.swap))

Retried == Len(SelectSeq(ret.warnings, LAMBDA w : w = SwapWarning))

\* C16: when the first text value of a header stream raises a text-decoding
\* error the decoder retries that read once with the opposite directive; when
\* the retry succeeds every later key and value is read under the flipped
\* directive, so a whole header encoded under the opposite directive comes
\* back as it was encoded; when the retry fails its error ends the call; no
\* call retries more than once, and a call whose first read raises anything
\* else, or nothing, does not retry.
C16_RetryOnce ==
    op = "bytes_to_dict" /\ stream.kind = "header" =>
        IF ~FirstRead.ok /\ FirstRead.err = UnicodeDecodeError
        THEN /\ Retried = 1
             /\ ret.order = SwapOrder(~args.swap)
             /\ ~SecondRead.ok => ~ret.ok /\ ret.err = SecondRead.err
             /\ SecondRead.ok =>
                  LET flipped == bytes_to_dict(stream.bytes, 0, args.key_fmts, ~args.swap)
                  IN /\ ret.ok = flipped.ok
                     /\ ret.header = flipped.header
                     /\ ret.err = flipped.err
             /\ SecondRead.ok /\ WholeHeader /\ args.swap # stream.swap
                  /\ C1_Domain(stream.header, stream.key_fmts) =>
                  ret.ok /\ ret.header = NonNull(NonSentinel(stream.header))
        ELSE /\ Retried = 0
             /\ ret.order = SwapOrder(args.swap)
             /\ ~FirstRead.ok => ~ret.ok /\ ret.err = FirstRead.err

\* a whole header holding a number, encoded under the opposite directive, was
\* decoded after one retry
C16_Witness ==
    /\ op = "bytes_to_dict"
    /\ WholeHeader
    /\ args.swap # stream.swap
    /\ Retried = 1
    /\ ret.ok
    /\ \E i \in DOMAIN ret.header : ret.header[i].value = Integer(-2)

\* the retry on a damaged stream failed as well and ended the call
C16_WitnessFatal ==
    /\ op = "bytes_to_dict"
    /\ stream.kind = "header"
    /\ ~stream.intact
    /\ Retried = 1
    /\ ~ret.ok
    /\ ret.err = UnicodeDecodeError

\* ------------------------------------------------------------------------
\* Properties of the validation
\* ------------------------------------------------------------------------
Validated == op \in {"check_dict_types", "check_header"}

\* every key is known in the type map and every value is Null or of the
\* mapped type
Valid(h, km) ==
    \A i \in DOMAIN h :
        /\ h[i].key \in DOMAIN km
        /\ h[i].value = Null \/ TypeOf(h[i].value) = km[h[i].key]

\* C11 as stated: validating a header in which every key is known in the type
\* map and every value is Null or of the mapped type, the empty header
\* included, returns ok = true and emits no diagnostic.
C11_ValidHeaderOk ==
    Validated /\ Valid(args.header, args.key_fmts) =>
        ret.ok /\ ret.good /\ ret.warnings = <<>>

\* the diagnostics the entries of h call for, one per offending entry, in order
RECURSIVE Offences(_, _)
Offences(h, km) ==
    IF h = <<>> THEN <<>>
    ELSE LET e == Head(h)
         IN (IF e.key \notin DOMAIN km THEN <<KeyWarning(e.key)>>
             ELSE IF e.value # Null /\ TypeOf(e.value) # km[e.key]
                  THEN <<TypeWarning(e.key, km[e.key])>>
                  ELSE <<>>)
            \o Offences(Tail(h), km)

\* C12 as stated: validation never aborts, emits exactly one diagnostic per
\* offending entry (type mismatch for a known key whose non-null value is not
\* of the mapped type, unexpected key for a key absent from the type map) and
\* returns ok = false whenever a diagnostic is emitted.
C12_OneDiagnosticEach ==
    Validated /\ args.warn =>
        /\ ret.ok
        /\ ret.warnings = Offences(args.header, args.key_fmts)
        /\ ret.warnings # <<>> => ~ret.good

\* ------------------------------------------------------------------------
\* The filterbank writer over the file helpers
\*
\* The file system maps each path to the bytes of the file there, NoFile when
\* there is none.  An outfile is [kind |-> "None"], a path
\* [kind |-> "path", path], an open file object [kind |-> "file", name, mode,
\* pos] or an in-memory stream without a name [kind |-> "bytesio", bytes, pos].
\* ------------------------------------------------------------------------
OSError == "OSError"
FileExistsError == "FileExistsError"
UnsupportedOperation == "io.UnsupportedOperation"
ResolveMessage == "Could not resolve/infer output file name."
NameWarning == "File name and rawdatafile in header do not match."

NoOutfile == [kind |-> "None"]
PathOf(p) == [kind |-> "path", path |-> p]

\* os.path.basename(p): what follows the last "/"
basename(p) ==
    LET slashes == {i \in DOMAIN p : p[i] = 47}
    IN IF slashes = {} THEN p
       ELSE SubSeq(p, (CHOOSE i \in slashes : \A j \in slashes : j <= i) + 1, Len(p))

\* header.get(key, None)
HeaderGet(header, key) ==
    IF key \in Keys(header)
    THEN (CHOOSE e \in Range(header) : e.key = key).value
    ELSE Null

\* a missing name falls back to x.fil instead of failing
ResolveNameDefault(outfile, name) ==
    IF outfile.kind = "None"
    THEN [ok |-> TRUE, err |-> "", msg |-> "",
          outfile |-> [kind |-> "path",
                       path |-> IF name = Null THEN <<120, 46, 102, 105, 108>>
                                ELSE name.s],
          filen |-> name]
    ELSE IF outfile.kind = "file"
    THEN [ok |-> TRUE, err |-> "", msg |-> "",
          outfile |-> outfile, filen |-> Text(basename(outfile.name))]
    ELSE IF outfile.kind = "path"
    THEN [ok |-> TRUE, err |-> "", msg |-> "",
          outfile |-> outfile, filen |-> Text(basename(outfile.path))]
    ELSE [ok |-> FALSE, err |-> TypeError, msg |-> "",
          outfile |-> outfile, filen |-> Null]

\* write_filterbank: the output and the name it is known by; name is
\* header.get("rawdatafile", None)
ResolveName(outfile, name) ==
    IF outfile.kind = "None"
    THEN IF name = Null
         THEN [ok |-> FALSE, err |-> OSError, msg |-> ResolveMessage,
               outfile |-> outfile, filen |-> Null]
         ELSE [ok |-> TRUE, err |-> "", msg |-> "",
               outfile |-> PathOf(name.s), filen |-> name]
    ELSE IF outfile.kind = "file"
    THEN [ok |-> TRUE, err |-> "", msg |-> "",
          outfile |-> outfile, filen |-> Text(basename(outfile.name))]
    ELSE IF outfile.kind = "path"
    THEN [ok |-> TRUE, err |-> "", msg |-> "",
          outfile |-> outfile, filen |-> Text(basename(outfile.path))]
    ELSE [ok |-> FALSE, err |-> TypeError, msg |-> "",
          outfile |-> outfile, filen |-> Null]

\* the names are never compared
MismatchSilent(filen, name) == <<>>

\* write_filterbank: the warning when the two names differ
MismatchWarning(filen, name) == IF filen # name THEN <<NameWarning>> ELSE <<>>

\* on a shared key the built-in entry is kept
MergedTypesBuiltinWins(key_fmts) ==
    [k \in DOMAIN header_types \cup DOMAIN key_fmts |->
        IF k \in DOMAIN header_types THEN header_types[k] ELSE key_fmts[k]]

\* dict(_header_types, **key_fmts)
MergedTypes(key_fmts) ==
    [k \in DOMAIN header_types \cup DOMAIN key_fmts |->
        IF k \in DOMAIN key_fmts THEN key_fmts[k] ELSE header_types[k]]

file_exists(fs, path) == fs[path] # NoFile

\* the bytes of a file after data is written at pos
Overlay(old, pos, data) ==
    SubSeq(old, 1, pos) \o data \o SubSeq(old, pos + Len(data) + 1, Len(old))

\* the existence check lets every call through
MayOpenAlways(fs, path, overwrite) == TRUE

\* the existence check of open_file in a writing mode: the call goes on to
\* open the file unless it must not overwrite a file that is there
MayOpen(fs, path, overwrite) == overwrite \/ ~file_exists(fs, path)

\* the file is opened whether or not it exists
open_file_unguarded(fs, path, overwrite) ==
    [ok |-> TRUE, err |-> "", fs |-> [fs EXCEPT ![path] = <<>>]]

\* open_file(path, "wb", overwrite) for a path given as a str: [ok, err, fs],
\* fs the file system once the file is open, created or truncated
open_file(fs, path, overwrite) ==
    IF ~MayOpen(fs, path, overwrite)
    THEN [ok |-> FALSE, err |-> FileExistsError, fs |-> fs]
    ELSE [ok |-> TRUE, err |-> "", fs |-> [fs EXCEPT ![path] = <<>>]]

\* write_to_file(data, path_or_stream, "wb", overwrite): [ok, err, fs, target]
write_to_file(data, target, overwrite, fs) ==
    IF target.kind = "file"
    THEN IF target.mode = "wb"
         THEN [ok |-> TRUE, err |-> "",
               fs |-> [fs EXCEPT ![target.name] = Overlay(@, target.pos, data)],
               target |-> [target EXCEPT !.pos = @ + Len(data)]]
         ELSE [ok |-> FALSE, err |-> UnsupportedOperation, fs |-> fs,
               target |-> target]
    ELSE IF target.kind = "bytesio"
    THEN [ok |-> TRUE, err |-> "", fs |-> fs,
          target |-> [target EXCEPT !.bytes = Overlay(@, target.pos, data),
                                    !.pos = @ + Len(data)]]
    ELSE IF target.kind = "path"
    THEN LET opened == open_file(fs, target.path, overwrite)
         IN IF opened.ok
            THEN [ok |-> TRUE, err |-> "",
                  fs |-> [opened.fs EXCEPT ![target.path] = data],
                  target |-> target]
            ELSE [ok |-> FALSE, err |-> opened.err, fs |-> fs, target |-> target]
    ELSE [ok |-> FALSE, err |-> OSError, fs |-> fs, target |-> target]

\* a separator byte is put between the header and the data
AssembleFramed(header_bytes, data_bytes) == header_bytes \o <<0>> \o data_bytes

\* all_bytes = header_bytes + data_bytes
Assemble(header_bytes, data_bytes) == header_bytes \o data_bytes

\* write_to_file(all_bytes, outfile, "wb", overwrite) has returned or raised
Wrote(warned, all_bytes, written) ==
    [ok |-> written.ok, err |-> written.err, msg |-> "", warnings |-> warned,
     encoded |-> TRUE, bytes |-> all_bytes, fs |-> written.fs,
     outfile |-> written.target]

\* the bytes are handed to write_to_file
WriteAll(res, warned, overwrite, fs, all_bytes) ==
    Wrote(warned, all_bytes, write_to_file(all_bytes, res.outfile, overwrite, fs))

\* np.asarray(data, dtype=fmt) converts the data: an array of text that is no
\* number does not convert to a numeric dtype, ValueError
Castable(data, fmt) == data.fmt # "<U1"

\* an encoder has raised: write_filterbank ends there
EncodeFails(e, warned, fs, outfile) ==
    [ok |-> FALSE, err |-> e, msg |-> "", warnings |-> warned,
     encoded |-> TRUE, bytes |-> <<>>, fs |-> fs, outfile |-> outfile]

\* the output file is opened for writing before anything is encoded
WriteEncodedOpenFirst(data, fmt, order, swap, overwrite, fs, outfile, res, warned, header_bytes) ==
    [ok |-> FALSE, err |-> "", msg |-> "", warnings |-> warned,
     encoded |-> TRUE, bytes |-> <<>>,
     fs |-> IF res.outfile.kind = "path" THEN [fs EXCEPT ![res.outfile.path] = <<>>]
            ELSE fs,
     outfile |-> outfile]

\* the header encoder has returned or raised; the array is encoded next
WriteEncoded(data, fmt, order, swap, overwrite, fs, outfile, res, warned, header_bytes) ==
    IF ~header_bytes.ok THEN EncodeFails(header_bytes.err, warned, fs, outfile)
    ELSE IF ~Castable(data, fmt) THEN EncodeFails(ValueError, warned, fs, outfile)
    ELSE WriteAll(res, warned, overwrite, fs,
                  Assemble(header_bytes.bytes, data_to_bytes(data, fmt, order, swap)))

\* the output is resolved (res); the names are compared, the header encoded
WriteResolved(data, header, key_fmts, outfile, fmt, order, swap, overwrite, fs, name, res) ==
    IF ~res.ok
    THEN [ok |-> FALSE, err |-> res.err, msg |-> res.msg, warnings |-> <<>>,
          encoded |-> FALSE, bytes |-> <<>>, fs |-> fs, outfile |-> outfile]
    ELSE WriteEncoded(data, fmt, order, swap, overwrite, fs, outfile, res,
                      MismatchWarning(res.filen, name),
                      dict_to_bytes(header, MergedTypes(key_fmts), swap))

\* write_filterbank(data, header, key_fmts, outfile, fmt, order, swap,
\* overwrite) on the file system fs: [ok, err, msg, warnings, encoded, bytes,
\* fs, outfile]; encoded tells whether the header encoder was called, bytes
\* is what was handed to write_to_file
write_filterbank(data, header, key_fmts, outfile, fmt, order, swap, overwrite, fs) ==
    WriteResolved(data, header, key_fmts, outfile, fmt, order, swap, overwrite, fs,
                  HeaderGet(header, rawdatafile),
                  ResolveName(outfile, HeaderGet(header, rawdatafile)))

\* write_raw(data, outfile, fmt, order, swap, overwrite) on the file system
\* fs: [ok, err, bytes, fs, outfile]
write_raw(data, outfile, fmt, order, swap, overwrite, fs) ==
    LET encoded == data_to_bytes(data, fmt, order, swap)
        written == write_to_file(encoded, outfile, overwrite, fs)
    IN [ok |-> written.ok, err |-> written.err, bytes |-> encoded,
        fs |-> written.fs, outfile |-> written.target]

FileNotFoundError == "FileNotFoundError"

\* len_header=None
NoLength == -1

ReadFails(e) == [ok |-> FALSE, err |-> e, header |-> <<>>, data |-> Nothing]

\* what a reader returns once the array d is decoded, or the error raised
Returned(header, d) ==
    IF ~d.ok THEN ReadFails(d.err)
    ELSE [ok |-> TRUE, err |-> "", header |-> header, data |-> d]

\* bytes_to_data(buff, n_channels, fmt, order, swap), the cursor of buff at pos
DataAt(bytes, pos, n_channels, fmt, order, swap, header) ==
    Returned(header, bytes_to_data(bytes, pos, n_channels, fmt, order, swap))

\* bytes_to_header(buff, key_fmts, swap) gave h and left the cursor at h.pos;
\* the array is decoded from there, the header returned with it when keep
AfterHeader(bytes, n_channels, fmt, order, swap, keep, h) ==
    IF ~h.ok THEN ReadFails(h.err)
    ELSE DataAt(bytes, h.pos, n_channels, fmt, order, swap,
                IF keep THEN h.header ELSE <<>>)

\* return bytes_to_header(buff, key_fmts, swap)
HeaderRead(h) ==
    IF ~h.ok THEN ReadFails(h.err)
    ELSE [ok |-> TRUE, err |-> "", header |-> h.header, data |-> Nothing]

\* read_filterbank_header(path, key_fmts, swap) on the file system fs:
\* [ok, err, header, data]; data is Nothing, the call returns the header only
read_filterbank_header(path, key_fmts, swap, fs) ==
    IF ~file_exists(fs, path) THEN ReadFails(FileNotFoundError)
    ELSE HeaderRead(bytes_to_dict(fs[path], 0, MergedTypes(key_fmts), swap))

\* read_filterbank_data(path, len_header, n_channels, fmt, order, swap,
\* key_fmts) on the file system fs: [ok, err, header, data]; header is empty,
\* the call returns the array only.  With no length the header is decoded and
\* thrown away, else the cursor is put at len_header
read_filterbank_data(path, len_header, n_channels, fmt, order, swap, key_fmts, fs) ==
    IF ~file_exists(fs, path) THEN ReadFails(FileNotFoundError)
    ELSE IF len_header = NoLength
    THEN AfterHeader(fs[path], n_channels, fmt, order, swap, FALSE,
                     bytes_to_dict(fs[path], 0, MergedTypes(key_fmts), swap))
    ELSE DataAt(fs[path], len_header, n_channels, fmt, order, swap, <<>>)

\* read_filterbank(path, n_channels, fmt, order, swap, key_fmts) on the file
\* system fs: [ok, err, header, data]
read_filterbank(path, n_channels, fmt, order, swap, key_fmts, fs) ==
    IF ~file_exists(fs, path) THEN ReadFails(FileNotFoundError)
    ELSE AfterHeader(fs[path], n_channels, fmt, order, swap, TRUE,
                     bytes_to_dict(fs[path], 0, MergedTypes(key_fmts), swap))

\* ------------------------------------------------------------------------
\* The inputs of the writer
\* ------------------------------------------------------------------------
Entry(k, v) == [key |-> k, value |-> v]

\* no filename field, a Null one, one that names x.fil, and a header whose
\* nbits does not pack as the int32 the filterbank map requires
FileHeaders ==
    {<<>>,
     <<Entry(rawdatafile, Null)>>,
     <<Entry(rawdatafile, Text(PathX))>>,
     <<Entry(rawdatafile, Text(PathX)), Entry(nbits, Integer(-2))>>,
     <<Entry(nbits, Text(TextX))>>,
     <<Entry(rawdatafile, Text(PathX)), Entry(nbits, Text(TextX))>>,
     <<Entry(rawdatafile, Text(PathX)), Entry(fch1, Integer(-2))>>,
     <<Entry(rawdatafile, Text(PathX)), Entry(source_name, Text(TextE))>>,
     <<Entry(rawdatafile, Text(PathX)), Entry(nbits, Text(TextX)),
       Entry(MAGICN, FloatingPoint(Float8))>>}

FileTypeMaps == {<<>>, (nbits :> "str")}

FileArrays == {a \in Arrays : a.fmt = "<i8" /\ a.shape \in {<<1, 1>>, <<2>>}}

\* np.array(["x"]): an array that data_to_bytes cannot convert to ">i8"
TextArray == [fmt |-> "<U1", shape |-> <<1>>, vals |-> <<120>>]

\* the column counts a file is read back with
ReadCols == {1, 2}

\* what a file holds before the writer is called
OldBytes == <<7>>

\* ------------------------------------------------------------------------
\* Calls of the writer
\* ------------------------------------------------------------------------
\* a file is there before the call
CreateFile(p) ==
    /\ op = "none"
    /\ stream.kind = "none"
    /\ files[p] = NoFile
    /\ files' = [files EXCEPT ![p] = OldBytes]
    /\ UNCHANGED <<op, args, ret, stream, heap>>

\* the caller's open(p, mode): "wb" creates or truncates, "rb" needs the file
OpenFileObject(p, mode) ==
    /\ op = "none"
    /\ stream.kind = "none"
    /\ mode = "rb" => files[p] # NoFile
    /\ stream' = [kind |-> "file", name |-> p, mode |-> mode, pos |-> 0]
    /\ files' = IF mode = "wb" THEN [files EXCEPT ![p] = <<>>] ELSE files
    /\ UNCHANGED <<op, args, ret, heap>>

\* the caller's io.BytesIO()
NewBytesIO ==
    /\ op = "none"
    /\ stream.kind = "none"
    /\ stream' = [kind |-> "bytesio", bytes |-> <<>>, pos |-> 0]
    /\ UNCHANGED <<op, args, ret, files, heap>>

\* args keeps the file system and the outfile the call was made with
CallWriteFilterbank(data, header, key_fmts, outfile, swap, overwrite) ==
    LET r == write_filterbank(data, header, key_fmts, outfile, ">i8", "F", swap,
                              overwrite, files)
    IN /\ op = "none"
       /\ outfile.kind \in {"None", "path", "file", "bytesio"}
       /\ outfile.kind \in {"file", "bytesio"} => outfile = stream
       /\ op' = "write_filterbank"
       /\ args' = [data |-> data, header |-> header, key_fmts |-> key_fmts,
                   outfile |-> outfile, fmt |-> ">i8", order |-> "F",
                   swap |-> swap, overwrite |-> overwrite, files |-> files]
       /\ ret' = [r EXCEPT !.fs = Nothing, !.outfile = Nothing]
       /\ files' = r.fs
       /\ stream' = IF outfile.kind \in {"file", "bytesio"} THEN r.outfile ELSE stream
       /\ UNCHANGED heap

CallWriteRaw(data, outfile, swap, overwrite) ==
    LET r == write_raw(data, outfile, ">i8", "F", swap, overwrite, files)
    IN /\ op = "none"
       /\ outfile.kind \in {"path", "file", "bytesio"}
       /\ outfile.kind \in {"file", "bytesio"} => outfile = stream
       /\ op' = "write_raw"
       /\ args' = [data |-> data, outfile |-> outfile, fmt |-> ">i8", order |-> "F",
                   swap |-> swap, overwrite |-> overwrite, files |-> files]
       /\ ret' = [r EXCEPT !.fs = Nothing, !.outfile = Nothing]
       /\ files' = r.fs
       /\ stream' = IF outfile.kind \in {"file", "bytesio"} THEN r.outfile ELSE stream
       /\ UNCHANGED heap

\* where a write that succeeded put its bytes: a path, or NoFile for a stream
\* in memory
WrittenPath ==
    IF args.outfile.kind = "path" THEN args.outfile.path
    ELSE IF args.outfile.kind = "file" THEN args.outfile.name
    ELSE IF args.outfile.kind = "None" THEN HeaderGet(args.header, rawdatafile).s
    ELSE NoFile

\* the file a write_filterbank call has just produced at a path is read back
\* with the overrides it was written with; args keeps the directive it was
\* written with and the length of its encoded header
ReadBack(name, len_header, n_channels, swap, key_fmts, r) ==
    /\ op = "write_filterbank"
    /\ ret.ok
    /\ args.outfile.kind = "path"
    /\ stream.kind = "none"
    /\ key_fmts = args.key_fmts
    /\ op' = name
    /\ args' = [path |-> WrittenPath, len_header |-> len_header,
                n_channels |-> n_channels, fmt |-> args.fmt, order |-> args.order,
                swap |-> swap, key_fmts |-> key_fmts,
                written |-> [swap |-> args.swap, key_fmts |-> args.key_fmts,
                             header |-> args.header,
                             header_len |-> Len(dict_to_bytes(args.header,
                                 MergedTypes(args.key_fmts), args.swap).bytes)]]
    /\ ret' = r
    /\ UNCHANGED <<files, stream, heap>>

CallReadFilterbankHeader(swap, key_fmts) ==
    ReadBack("read_filterbank_header", NoLength, 0, swap, key_fmts,
             read_filterbank_header(WrittenPath, key_fmts, swap, files))

\* the length given is the length of the header the writer encoded, or none
CallReadFilterbankData(skip, n_channels, swap, key_fmts) ==
    LET len_header ==
            IF skip THEN Len(dict_to_bytes(args.header, MergedTypes(args.key_fmts),
                                           args.swap).bytes)
            ELSE NoLength
    IN ReadBack("read_filterbank_data", len_header, n_channels, swap, key_fmts,
                read_filterbank_data(WrittenPath, len_header, n_channels, args.fmt,
                                     args.order, swap, key_fmts, files))

CallReadFilterbank(n_channels, swap, key_fmts) ==
    ReadBack("read_filterbank", NoLength, n_channels, swap, key_fmts,
             read_filterbank(WrittenPath, n_channels, args.fmt, args.order, swap,
                             key_fmts, files))

NextFiles ==
    \/ \E p \in Paths : CreateFile(p)
    \/ \E p \in Paths, mode \in {"wb", "rb"} : OpenFileObject(p, mode)
    \/ NewBytesIO
    \/ /\ op = "none"
       /\ \E data \in FileArrays \cup {TextArray}, header \in FileHeaders,
             key_fmts \in FileTypeMaps,
             outfile \in {NoOutfile, stream} \cup {PathOf(p) : p \in Paths},
             swap \in BOOLEAN, overwrite \in BOOLEAN :
             CallWriteFilterbank(data, header, key_fmts, outfile, swap, overwrite)
    \/ /\ op = "none"
       /\ \E data \in FileArrays, outfile \in {stream} \cup {PathOf(p) : p \in Paths},
             swap \in BOOLEAN, overwrite \in BOOLEAN :
             CallWriteRaw(data, outfile, swap, overwrite)
    \/ /\ op = "write_filterbank"
       /\ \E swap \in BOOLEAN, key_fmts \in FileTypeMaps :
             CallReadFilterbankHeader(swap, key_fmts)
    \/ /\ op = "write_filterbank"
       /\ \E skip \in BOOLEAN, n_channels \in ReadCols, swap \in BOOLEAN,
             key_fmts \in FileTypeMaps :
             CallReadFilterbankData(skip, n_channels, swap, key_fmts)
    \/ /\ op = "write_filterbank"
       /\ \E n_channels \in ReadCols, swap \in BOOLEAN, key_fmts \in FileTypeMaps :
             CallReadFilterbank(n_channels, swap, key_fmts)

SpecFiles == Init /\ [][NextFiles]_vars

\* ------------------------------------------------------------------------
\* Properties of the writer
\* ------------------------------------------------------------------------
Written == op = "write_filterbank"

\* the value of the header's filename field, Null when there is none
NameField == HeaderGet(args.header, rawdatafile)

\* every file except the one at path p is as it was before the call
OthersUntouched(p) == \A q \in Paths \ {p} : files[q] = args.files[q]

\* the header and the array of the call encode
Encodes ==
    /\ dict_to_bytes(args.header, MergedTypes(args.key_fmts), args.swap).ok
    /\ Castable(args.data, args.fmt)

\* what the call encodes: the header bytes, then the data bytes
EncodedBytes ==
    dict_to_bytes(args.header, MergedTypes(args.key_fmts), args.swap).bytes
    \o data_to_bytes(args.data, args.fmt, args.order, args.swap)

\* C8: a write with no outfile and no filename field in the header (absent or
\* Null) fails with the could-not-resolve OSError before the header encoder is
\* called, without a diagnostic, and leaves every file and the caller's stream
\* as they were; a write with no outfile and a filename field never fails that
\* way and, when it succeeds, the file at the path the field names holds the
\* bytes written and no other file has changed.
C8_ResolveOutputName ==
    Written /\ args.outfile.kind = "None" =>
        IF NameField = Null
        THEN /\ ~ret.ok
             /\ ret.err = OSError
             /\ ret.msg = ResolveMessage
             /\ ~ret.encoded
             /\ ret.warnings = <<>>
             /\ files = args.files
        ELSE /\ ret.msg # ResolveMessage
             /\ ret.ok => /\ files[NameField.s] = ret.bytes
                          /\ OthersUntouched(NameField.s)

\* a write without outfile, of a header that has no filename field and does
\* not encode, was refused while a file existed
C8_Witness ==
    /\ Written
    /\ args.outfile.kind = "None"
    /\ NameField = Null
    /\ ~Encodes
    /\ ~ret.ok
    /\ \E p \in Paths : files[p] # NoFile

\* the outfile of the call has a base name: a path or a named file object
BaseName ==
    IF args.outfile.kind = "path" THEN Text(basename(args.outfile.path))
    ELSE Text(basename(args.outfile.name))

HasBaseName == args.outfile.kind \in {"path", "file"}

Diagnosed == NameWarning \in Range(ret.warnings)

\* the diagnostic is emitted exactly when an explicit outfile has a base name
\* other than the filename field, once
DiagnosticIff ==
    /\ Diagnosed <=> HasBaseName /\ BaseName # NameField
    /\ Len(ret.warnings) <= 1

\* the bytes of the call are where the call had to put them
BytesWritten ==
    /\ ret.bytes = EncodedBytes
    /\ args.outfile.kind = "path" => files[args.outfile.path] = ret.bytes
    /\ args.outfile.kind = "file" =>
          /\ files[args.outfile.name]
               = Overlay(args.files[args.outfile.name], args.outfile.pos, ret.bytes)
          /\ stream.pos = args.outfile.pos + Len(ret.bytes)

\* C9 as stated: the diagnostic is emitted if and only if an explicit outfile
\* has a base name other than the header's filename field, never when the
\* outfile is omitted, and whenever it is emitted the call succeeds and the
\* bytes are written.
C9_DiagnosticAlwaysWritten ==
    Written /\ (HasBaseName \/ args.outfile.kind = "None") =>
        /\ DiagnosticIff
        /\ Diagnosed => ret.ok /\ BytesWritten

\* what stops a write whatever the names are: a header that does not encode,
\* an existing destination path without overwrite, a file object not open for
\* writing
Refused ==
    \/ ~Encodes
    \/ args.outfile.kind = "path" /\ ~args.overwrite
         /\ args.files[args.outfile.path] # NoFile
    \/ args.outfile.kind = "file" /\ args.outfile.mode # "wb"

\* C9 amended: the diagnostic is emitted if and only if an explicit outfile (a
\* path or a named file object) has a base name other than the header's
\* filename field, never when the outfile is omitted; the diagnostic stops
\* nothing: after it the call fails exactly when the header does not encode,
\* the destination path exists and overwrite is false, or the file object is
\* not open for writing, and otherwise the bytes are written.
C9_DiagnosticNonFatal ==
    Written /\ (HasBaseName \/ args.outfile.kind = "None") =>
        /\ DiagnosticIff
        /\ args.outfile.kind = "None" => ~Diagnosed
        /\ Diagnosed => /\ ret.ok <=> ~Refused
                        /\ ret.ok => BytesWritten

\* a write to y.fil of a header that names x.fil was diagnosed and written
C9_Witness ==
    /\ Written
    /\ args.outfile = PathOf(PathY)
    /\ NameField = Text(PathX)
    /\ Diagnosed
    /\ ret.ok
    /\ files[PathY] = ret.bytes

\* the path the call writes to: the outfile, or the filename field
Destination ==
    IF args.outfile.kind = "path" THEN args.outfile.path ELSE NameField.s

ToExistingPath ==
    /\ Written
    /\ \/ args.outfile.kind = "path"
       \/ args.outfile.kind = "None" /\ NameField # Null
    /\ args.files[Destination] # NoFile

\* the same call with overwrite = TRUE
Overwriting ==
    write_filterbank(args.data, args.header, args.key_fmts, args.outfile,
                     args.fmt, args.order, args.swap, TRUE, args.files)

\* C10 as stated: a write to a path at which a file exists fails with
\* FileExistsError when overwrite is false, leaving the file as it was, and
\* the same call with overwrite true succeeds and leaves exactly the newly
\* encoded bytes in the file.
C10_OverwriteGuard ==
    ToExistingPath =>
        /\ ~args.overwrite =>
              /\ ~ret.ok /\ ret.err = FileExistsError
              /\ files = args.files
              /\ Overwriting.ok
              /\ Overwriting.fs[Destination] = Overwriting.bytes
        /\ args.overwrite => ret.ok /\ files[Destination] = EncodedBytes

\* C10 amended: for a header and array that encode, a write to a path at which
\* a file exists fails with FileExistsError when overwrite is false, leaving
\* every file as it was, and the same call with overwrite true succeeds and
\* leaves exactly the newly encoded bytes in that file and every other file
\* as it was; when the header does not encode, the call fails with the
\* encoder's error under either setting and every file is as it was.
C10_OverwriteGuardEncodable ==
    ToExistingPath =>
        IF Encodes
        THEN /\ ~args.overwrite =>
                   /\ ~ret.ok /\ ret.err = FileExistsError
                   /\ files = args.files
                   /\ Overwriting.ok
                   /\ Overwriting.fs[Destination] = Overwriting.bytes
                   /\ Overwriting.bytes = EncodedBytes
             /\ args.overwrite =>
                   /\ ret.ok
                   /\ files[Destination] = EncodedBytes
                   /\ OthersUntouched(Destination)
        ELSE /\ ~ret.ok
             /\ ret.err \notin {FileExistsError, OSError}
             /\ files = args.files

\* a write without overwrite to an existing path was refused and the file kept
\* its bytes
C10_Witness ==
    /\ ToExistingPath
    /\ Encodes
    /\ ~args.overwrite
    /\ ret.err = FileExistsError
    /\ files[Destination] = OldBytes

\* ------------------------------------------------------------------------
\* The bytes of a written file
\* ------------------------------------------------------------------------
\* the writer got as far as handing bytes to write_to_file
Handed == Written /\ ret.encoded /\ Encodes

\* the width of a value by the value's own kind
WidthByKind(value) ==
    CASE value.kind = "Integer" -> 4
      [] value.kind = "FloatingPoint" -> 8
      [] value.kind = "Text" -> 4 + Len(str_encode(value.s))

\* the width of a value by the format it is packed in: the format the type
\* map gives for the key, the type of the value for a key it does not hold
WidthByFormat(e, km) ==
    LET ch == TypeChar(FmtGet(km, e.key, TypeOf(e.value)))
    IN IF ch = "U" THEN 4 + Len(str_encode(e.value.s)) ELSE CalcSize(ch)

RECURSIVE SumOf(_)
SumOf(ns) == IF ns = <<>> THEN 0 ELSE Head(ns) + SumOf(Tail(ns))

\* the bytes of the sentinel records: 4 + 12 and 4 + 10
SentinelBytes == (4 + Len(HEADER_START)) + (4 + Len(HEADER_END))

DataLength == Size(args.data.shape) * np_dtype(args.fmt).itemsize

RawIsData ==
    op = "write_raw" =>
        /\ ret.bytes = data_to_bytes(args.data, args.fmt, args.order, args.swap)
        /\ Len(ret.bytes) = DataLength
        /\ ret.ok /\ args.outfile.kind = "path" => files[args.outfile.path] = ret.bytes

\* C14 as stated: the bytes the writer hands to the output are the encoded
\* header immediately followed by the encoded array, and their number is 30
\* plus, for every non-null non-sentinel entry, 4 + key length + value width,
\* the width being 4 for an Integer value, 8 for a FloatingPoint value and
\* 4 + text length for a Text value, plus element count times element width;
\* a raw file is the encoded array only.
C14_LengthByValueKind ==
    /\ RawIsData
    /\ Handed =>
         LET kept == Kept(args.header)
         IN /\ ret.bytes = EncodedBytes
            /\ Len(ret.bytes) =
                 SentinelBytes
                 + SumOf([i \in DOMAIN kept |->
                            4 + Len(str_encode(kept[i].key)) + WidthByKind(kept[i].value)])
                 + DataLength

\* C14 amended: the same, the width of a value being that of the format it is
\* packed in (4 for a key the type map gives as Integer, 8 for one it gives as
\* FloatingPoint, 4 + number of encoded text bytes for Text; the value's own
\* type for a key outside the type map), and a file written to a path holds
\* exactly those bytes.
C14_LengthByFormat ==
    /\ RawIsData
    /\ Handed =>
         LET kept == Kept(args.header)
             km == MergedTypes(args.key_fmts)
         IN /\ ret.bytes = EncodedBytes
            /\ Len(ret.bytes) =
                 SentinelBytes
                 + SumOf([i \in DOMAIN kept |->
                            4 + Len(str_encode(kept[i].key)) + WidthByFormat(kept[i], km)])
                 + DataLength
            /\ ret.ok /\ args.outfile.kind = "path" =>
                 files[args.outfile.path] = ret.bytes

\* an Integer value under a key the type map gives as FloatingPoint was written
C14_Witness ==
    /\ Handed
    /\ ret.ok
    /\ args.outfile.kind = "path"
    /\ \E i \in DOMAIN args.header :
          args.header[i] = Entry(fch1, Integer(-2))
    /\ Len(files[args.outfile.path]) = SentinelBytes + (4 + 11 + 4 + 5) + (4 + 4 + 8) + DataLength

\* ------------------------------------------------------------------------
\* Properties of the readers
\* ------------------------------------------------------------------------
\* a file the writer produced is read back with the directive and the
\* overrides it was written with
ReadAsWritten ==
    /\ op \in {"read_filterbank_header", "read_filterbank_data", "read_filterbank"}
    /\ args.swap = args.written.swap

\* the same file read with selector Both, with the column count n_channels
BothOf(n_channels) ==
    read_filterbank(args.path, n_channels, args.fmt, args.order, args.swap,
                    args.key_fmts, files)

\* two reads end alike and, when they return, return the same array
SameArray(r, both) ==
    /\ r.ok = both.ok
    /\ r.ok => r.data = both.data

\* C17: for every file the writer produced, the array returned by DataOnly
\* (no length given) and the array returned by SkipBytes(n), n the length of
\* the encoded header, are the array part of Both, and the header returned by
\* HeaderOnly is the header part of Both.
C17_SelectorsAgree ==
    ReadAsWritten =>
        /\ op = "read_filterbank_data" => SameArray(ret, BothOf(args.n_channels))
        /\ op = "read_filterbank_header" =>
              \A n \in ReadCols :
                  BothOf(n).ok => ret.ok /\ ret.header = BothOf(n).header

\* ------------------------------------------------------------------------
\* Two processes write at the same time
\*
\* Each process calls write_filterbank with a path; the call encodes, then
\* write_to_file runs open_file: the existence check, then open(path, "wb"),
\* then buff.write and the close that ends the with block.  The three are
\* separate steps of a process and the steps of the two processes interleave.
\* args.calls[p] is the call of process p: [pc, path, overwrite, bytes, err];
\* ret.log is the sequence of the steps taken, each [proc, step].
\* ------------------------------------------------------------------------
Procs == {1, 2}

RacePaths == {PathX, PathY}

RaceCall(data, path, overwrite) ==
    [pc |-> "check", path |-> path, overwrite |-> overwrite, err |-> "",
     bytes |-> write_filterbank(data, <<>>, <<>>, PathOf(path), ">i8", "F", FALSE,
                                overwrite, files).bytes]

\* both processes enter write_to_file; args keeps the file system of that moment
StartWrites(d1, d2, p1, p2, o1, o2) ==
    /\ op = "none"
    /\ stream.kind = "none"
    /\ op' = "race"
    /\ args' = [calls |-> <<RaceCall(d1, p1, o1), RaceCall(d2, p2, o2)>>,
                files |-> files]
    /\ ret' = [log |-> <<>>]
    /\ UNCHANGED <<files, stream, heap>>

Logged(p, step) == [ret EXCEPT !.log = Append(@, [proc |-> p, step |-> step])]

\* open_file: if ... (not overwrite) and file_exists(path_str): raise
CheckExists(p) ==
    LET c == args.calls[p]
    IN /\ op = "race"
       /\ c.pc = "check"
       /\ args' = IF MayOpen(files, c.path, c.overwrite)
                  THEN [args EXCEPT !.calls[p].pc = "open"]
                  ELSE [args EXCEPT !.calls[p].pc = "failed",
                                    !.calls[p].err = FileExistsError]
       /\ ret' = Logged(p, "check")
       /\ UNCHANGED <<op, files, stream, heap>>

\* open_file: return open(path_str, "wb"), which creates or truncates
OpenForWrite(p) ==
    LET c == args.calls[p]
    IN /\ op = "race"
       /\ c.pc = "open"
       /\ files' = [files EXCEPT ![c.path] = <<>>]
       /\ args' = [args EXCEPT !.calls[p].pc = "write"]
       /\ ret' = Logged(p, "open")
       /\ UNCHANGED <<op, stream, heap>>

\* write_to_file: buff.write(data) and the end of the with block; the bytes
\* go to offset 0 of the file as it is by then
WriteAndClose(p) ==
    LET c == args.calls[p]
    IN /\ op = "race"
       /\ c.pc = "write"
       /\ files' = [files EXCEPT ![c.path] = Overlay(@, 0, c.bytes)]
       /\ args' = [args EXCEPT !.calls[p].pc = "done"]
       /\ ret' = Logged(p, "write")
       /\ UNCHANGED <<op, stream, heap>>

NextRace ==
    \/ \E p \in RacePaths : CreateFile(p)
    \/ /\ op = "none"
       /\ \E d1 \in FileArrays, d2 \in FileArrays, p1 \in RacePaths, p2 \in RacePaths,
             o1 \in BOOLEAN, o2 \in BOOLEAN :
             StartWrites(d1, d2, p1, p2, o1, o2)
    \/ \E p \in Procs : CheckExists(p)
    \/ \E p \in Procs : OpenForWrite(p)
    \/ \E p \in Procs : WriteAndClose(p)

SpecRace == Init /\ [][NextRace]_vars

\* the two calls name one path, neither may overwrite, and no file was there
\* when they were made
RaceOnNewPath ==
    /\ op = "race"
    /\ args.calls[1].path = args.calls[2].path
    /\ ~args.calls[1].overwrite
    /\ ~args.calls[2].overwrite
    /\ args.files[args.calls[1].path] = NoFile

Other(p) == 3 - p

Took(p, step) == \E i \in DOMAIN ret.log : ret.log[i] = [proc |-> p, step |-> step]

\* process p took step s before process q took step t
Before(p, s, q, t) ==
    \E i \in DOMAIN ret.log, j \in DOMAIN ret.log :
        /\ i < j
        /\ ret.log[i] = [proc |-> p, step |-> s]
        /\ ret.log[j] = [proc |-> q, step |-> t]

BothDone == args.calls[1].pc = "done" /\ args.calls[2].pc = "done"

\* the process whose write came last
LastWriter == IF Before(1, "write", 2, "write") THEN 2 ELSE 1

\* C18: two processes call write with overwrite=false on one path where no
\* file exists.  A call fails, with FileExistsError, exactly when its
\* existence check came after the other's open; so when both checks come
\* before either open neither call fails, and in every state where both calls
\* are done both checks did come before either open and the file holds the
\* bytes of the call that wrote last, laid over what the other call wrote only
\* if that was written after the last writer had opened the file.
C18_CheckThenOpenRace ==
    RaceOnNewPath =>
        /\ \A p \in Procs :
              /\ Took(p, "check") =>
                    (args.calls[p].pc = "failed" <=>
                        Before(Other(p), "open", p, "check"))
              /\ args.calls[p].pc = "failed" => args.calls[p].err = FileExistsError
        /\ BothDone =>
              LET l == LastWriter
                  o == Other(l)
                  path == args.calls[l].path
              IN /\ \A p \in Procs, q \in Procs : Before(p, "check", q, "open")
                 /\ files[path] =
                       IF Before(o, "write", l, "open") THEN args.calls[l].bytes
                       ELSE Overlay(args.calls[o].bytes, 0, args.calls[l].bytes)

\* neither call failed and the file holds the bytes of one call only, the
\* bytes of the other, which were different, are gone
C18_Witness ==
    /\ RaceOnNewPath
    /\ BothDone
    /\ args.calls[1].bytes # args.calls[2].bytes
    /\ files[args.calls[1].path] = args.calls[LastWriter].bytes
    /\ Len(args.calls[Other(LastWriter)].bytes) > Len(args.calls[LastWriter].bytes)

\* ------------------------------------------------------------------------
\* The dict objects across calls
\*
\* A call is handed names of objects, not values: the name of the caller's
\* dict, or of the default the parameter is bound to.  What a call does to
\* the objects is the statements of its body that make a dict or assign into
\* one; everything else only reads.
\* ------------------------------------------------------------------------
\* name = dict(...): the name is bound to a new object
Bind(h, id, d) == [h EXCEPT ![id] = d]

\* dict(base, **over)
Merge(base, over) ==
    [k \in DOMAIN base \cup DOMAIN over |->
        IF k \in DOMAIN over THEN over[k] ELSE base[k]]

\* _header_types.update(key_fmts): the overrides are written into the
\* module's dict
MergeTypesInPlace(h, key_fmts) ==
    [h EXCEPT !["_header_types"] = Merge(@, h[key_fmts]),
              !["merged"] = Merge(h["_header_types"], h[key_fmts])]

\* key_fmts = dict(_header_types, **key_fmts): a new dict, the parameter
\* rebound to it
MergeTypes(h, key_fmts) ==
    Bind(h, "merged", Merge(h["_header_types"], h[key_fmts]))

\* dict_to_bytes: kvheader = dict({k: v for k, v in header.items() if v is
\* not None}); the loop reads kvheader and key_fmts
KeepNonNull(h, header) ==
    Bind(h, "kvheader", SelectSeq(h[header], LAMBDA e : e.value # Null))

\* bytes_to_dict: header = dict(), then header[key] = val for every pair read
Collect(h, decoded) == Bind(h, "decoded", decoded)

\* filterbank_header: fheader = dict({k: None for k in _header_types.keys()}),
\* then fheader.update(header)
FreshHeader(h, header) ==
    Bind(h, "fheader",
         [k \in DOMAIN h["_header_types"] \cup Keys(h[header]) |->
             IF k \in Keys(h[header]) THEN HeaderGet(h[header], k) ELSE Null])

\* ------------------------------------------------------------------------
\* Calls on the objects
\* ------------------------------------------------------------------------
ObjectHeaders ==
    {<<>>,
     <<Entry(nbits, Integer(-2))>>,
     <<Entry(nbits, Text(TextX)), Entry(fch1, Null)>>,
     <<Entry(rawdatafile, Text(PathX)), Entry(fch1, Integer(-2))>>}

HeaderRefs == {"header", "default_header"}
MapRefs == {"key_fmts", "default_key_fmts"}

\* the module is imported and the caller has made a header and overrides
InitObjects ==
    /\ op = "none"
    /\ args = Nothing
    /\ ret = Nothing
    /\ stream = Nothing
    /\ files = [p \in Paths |-> NoFile]
    /\ heap \in {Objects(h, km) : h \in ObjectHeaders, km \in FileTypeMaps}

EncodeObject(header, key_fmts, swap) ==
    LET r == dict_to_bytes(heap[header], heap[key_fmts], swap)
    IN /\ op' = "dict_to_bytes"
       /\ args' = [header |-> header, key_fmts |-> key_fmts, swap |-> swap]
       /\ ret' = r
       /\ heap' = KeepNonNull(heap, header)
       /\ stream' = IF r.ok THEN [kind |-> "encoded", bytes |-> r.bytes, swap |-> swap]
                    ELSE stream
       /\ UNCHANGED files

DecodeObject(key_fmts) ==
    LET r == bytes_to_dict(stream.bytes, 0, heap[key_fmts], stream.swap)
    IN /\ stream.kind = "encoded"
       /\ op' = "bytes_to_dict"
       /\ args' = [key_fmts |-> key_fmts, swap |-> stream.swap]
       /\ ret' = r
       /\ heap' = Collect(heap, r.header)
       /\ UNCHANGED <<stream, files>>

ValidateObject(header, key_fmts) ==
    /\ op' = "check_dict_types"
    /\ args' = [header |-> header, key_fmts |-> key_fmts, warn |-> TRUE]
    /\ ret' = check_dict_types(heap[header], heap[key_fmts], TRUE)
    /\ UNCHANGED <<stream, files, heap>>

ValidateHeaderObject(header) ==
    /\ op' = "check_header"
    /\ args' = [header |-> header]
    /\ ret' = check_dict_types(heap[header], heap["_header_types"], TRUE)
    /\ UNCHANGED <<stream, files, heap>>

FilterbankHeaderObject(header) ==
    /\ op' = "filterbank_header"
    /\ args' = [header |-> header]
    /\ ret' = [ok |-> TRUE, header |-> "fheader"]
    /\ heap' = FreshHeader(heap, header)
    /\ UNCHANGED <<stream, files>>

\* the writer reads the built-in map from the module's object
WriteObject(header, key_fmts, overwrite) ==
    LET r == write_filterbank(CHOOSE a \in FileArrays : a.shape = <<2>>, heap[header],
                              Merge(heap["_header_types"], heap[key_fmts]),
                              PathOf(PathX), ">i8", "F", FALSE, overwrite, files)
    IN /\ op' = "write_filterbank"
       /\ args' = [header |-> header, key_fmts |-> key_fmts, overwrite |-> overwrite]
       /\ ret' = [r EXCEPT !.fs = Nothing, !.outfile = Nothing]
       /\ files' = r.fs
       /\ heap' = IF r.encoded THEN KeepNonNull(MergeTypes(heap, key_fmts), header)
                  ELSE heap
       /\ UNCHANGED stream

ReadHeaderObject(key_fmts) ==
    LET r == read_filterbank_header(PathX, Merge(heap["_header_types"], heap[key_fmts]),
                                    FALSE, files)
    IN /\ files[PathX] # NoFile
       /\ op' = "read_filterbank_header"
       /\ args' = [key_fmts |-> key_fmts]
       /\ ret' = r
       /\ heap' = Collect(MergeTypes(heap, key_fmts), r.header)
       /\ UNCHANGED <<stream, files>>

NextObjects ==
    \/ \E header \in HeaderRefs, key_fmts \in MapRefs, swap \in BOOLEAN :
          EncodeObject(header, key_fmts, swap)
    \/ \E key_fmts \in MapRefs : DecodeObject(key_fmts)
    \/ \E header \in HeaderRefs, key_fmts \in MapRefs : ValidateObject(header, key_fmts)
    \/ \E header \in HeaderRefs : ValidateHeaderObject(header)
    \/ \E header \in HeaderRefs : FilterbankHeaderObject(header)
    \/ \E header \in HeaderRefs, key_fmts \in MapRefs, overwrite \in BOOLEAN :
          WriteObject(header, key_fmts, overwrite)
    \/ \E key_fmts \in MapRefs : ReadHeaderObject(key_fmts)

SpecObjects == InitObjects /\ [][NextObjects]_vars

\* the objects a call shares with its caller and with later calls
Shared == CallerObjects \cup ModuleObjects

\* C19: no encode, decode, validate, read or write call changes the caller's
\* header, the caller's overrides, the built-in map or a default dict: every
\* step leaves each of them as it was, so at every moment the built-in map is
\* the map of io/filterbank.py and a default dict is empty.
C19_NoMutation ==
    /\ [][\A id \in Shared : heap'[id] = heap[id]]_vars
    /\ [](/\ heap["_header_types"] = header_types
          /\ heap["default_header"] = <<>>
          /\ heap["default_key_fmts"] = <<>>)

\* the writer has merged the caller's override of nbits over the built-in map
\* and dropped a Null entry of the caller's header, after filterbank_header
\* and a decode had made their own dicts
C19_Witness ==
    /\ op = "write_filterbank"
    /\ ret.ok
    /\ args.key_fmts = "key_fmts"
    /\ args.header = "header"
    /\ heap["merged"][nbits] = "str"
    /\ heap["_header_types"][nbits] = "int"
    /\ heap["kvheader"] # heap["header"]
    /\ heap["fheader"] # <<>>
    /\ heap["decoded"] # <<>>

\* ------------------------------------------------------------------------
\* Properties of the formats a header is decoded with
\* ------------------------------------------------------------------------
\* the map a reader decodes with: the built-in map, the caller's overrides
\* laid over it
EffectiveMap == Merge(header_types, args.key_fmts)

KindOfFormat(fmt) ==
    CASE fmt = "int" -> "Integer"
      [] fmt = "float" -> "FloatingPoint"
      [] fmt = "str" -> "Text"

\* the bytes of a text in a stream: its byte length on 4 bytes, its bytes
TextImage(t, bo) == Ordered(IntToLE(Len(str_encode(t)), 4), bo) \o str_encode(t)

\* the bytes of a value in a stream: 4 for an Integer, 8 for a FloatingPoint
ValueImage(value, bo) ==
    CASE value.kind = "Text" -> TextImage(value.s, bo)
      [] value.kind = "Integer" -> Ordered(IntToLE(value.v, 4), bo)
      [] value.kind = "FloatingPoint" -> Ordered(Reverse(value.bits), bo)

\* the bytes of a header in a stream, between the sentinel records
HeaderImage(header, bo) ==
    TextImage(HEADER_START, bo)
    \o Concat([i \in DOMAIN header |->
                  TextImage(header[i].key, bo) \o ValueImage(header[i].value, bo)])
    \o TextImage(HEADER_END, bo)

HeaderWasRead == op = "read_filterbank_header" /\ ret.ok

\* C20: in the header a reader returns, the value of a key the effective map
\* (the caller's overrides merged over the built-in map, the caller's entry
\* winning) does not hold is a FloatingPoint, the value of a key it holds has
\* the kind of the mapped format, and the bytes read are exactly the records
\* of those keys and values: 8 bytes for every FloatingPoint, 4 for every
\* Integer.
C20_AbsentKeyIsFloat8 ==
    HeaderWasRead =>
        /\ \A i \in DOMAIN ret.header :
              LET e == ret.header[i]
              IN e.value.kind = KindOfFormat(FmtGet(EffectiveMap, e.key, "float"))
        /\ \E bo \in {"=", ">"} :
              LET image == HeaderImage(ret.header, bo)
              IN SubSeq(files[args.path], 1, Len(image)) = image

\* a header was read in which a key outside the effective map came back as a
\* FloatingPoint and nbits, overridden by the caller, as a Text
C20_Witness ==
    /\ HeaderWasRead
    /\ \E i \in DOMAIN ret.header :
          /\ ret.header[i].key = MAGICN
          /\ ret.header[i].key \notin DOMAIN EffectiveMap
          /\ ret.header[i].value = FloatingPoint(Float8)
    /\ \E i \in DOMAIN ret.header :
          /\ ret.header[i].key = nbits
          /\ header_types[nbits] = "int"
          /\ ret.header[i].value = Text(TextX)

\* ------------------------------------------------------------------------
\* Properties of the end of the pair-reading loop
\* ------------------------------------------------------------------------
\* the records of the pairs of a header, in order
PairsImage(header, bo) ==
    Concat([i \in DOMAIN header |->
               TextImage(header[i].key, bo) \o ValueImage(header[i].value, bo)])

\* the byte order the decoder ended up reading with
ReadOrder == my_fmt("str", ret.order).bo

\* what the decoder consumed
Consumed == SubSeq(stream.bytes, 1, ret.pos)

\* a header stream was decoded on the recovery path
Recovered ==
    /\ op = "bytes_to_dict"
    /\ stream.kind = "header"
    /\ \E i \in DOMAIN ret.warnings : ret.warnings[i] = StartWarning

\* C21 as stated: on the recovery path the loop reaches Done when and only
\* when the stream is exhausted at a pair boundary.
C21_DoneOnlyAtExhaustion ==
    Recovered =>
        /\ ret.ok => ret.pos = Len(stream.bytes)
        /\ RecoveryDecoded /\ ~stream.end => ret.ok

\* the bytes read last are the record of the end-sentinel key
EndKeyRead ==
    /\ ret.pos >= Len(TextImage(HEADER_END, ReadOrder))
    /\ SubSeq(stream.bytes, ret.pos - Len(TextImage(HEADER_END, ReadOrder)) + 1, ret.pos)
           = TextImage(HEADER_END, ReadOrder)

\* C21 amended: on the recovery path the loop reaches Done when the cursor
\* has reached the end of the stream after a value, or when a key equal to the
\* end sentinel is read, whatever follows it, and in no other way; in a
\* stream that is not damaged the bytes read are then the records of the
\* returned pairs.  A stream of typed pairs without end sentinel is read to
\* its end.
C21_DoneAtExhaustionOrEnd ==
    Recovered =>
        /\ ret.ok => ret.pos = Len(stream.bytes) \/ EndKeyRead
        /\ ret.ok /\ stream.intact =>
              \/ Consumed = PairsImage(ret.header, ReadOrder)
              \/ Consumed = PairsImage(ret.header, ReadOrder)
                            \o TextImage(HEADER_END, ReadOrder)
        /\ RecoveryDecoded /\ ~stream.end => ret.ok /\ ret.pos = Len(stream.bytes)

\* a stream with neither sentinel was decoded to its two pairs, Done at the
\* exhaustion of the stream
C21_Witness ==
    /\ Recovered
    /\ RecoveryDecoded
    /\ ~stream.end
    /\ ret.ok
    /\ Len(ret.header) = 2
    /\ ret.pos = Len(stream.bytes)

\* a header stream was decoded on the normal path: the first text value read,
\* with the directive the decoder settled on, is the start sentinel
NormalPath ==
    /\ op = "bytes_to_dict"
    /\ stream.kind = "header"
    /\ my_decode(stream.bytes, 0, "str", ret.order).ok
    /\ my_decode(stream.bytes, 0, "str", ret.order).val.s = HEADER_START

\* C22: on the normal path decode reaches Done only upon reading a key equal
\* to the end sentinel, the cursor then on the first byte after the
\* end-sentinel record; a stream that is exhausted before such a key is read
\* makes decode fail for lack of bytes, and no header is returned.
C22_DoneOnlyAtEnd ==
    NormalPath =>
        /\ ret.ok => Consumed = HeaderImage(ret.header, ReadOrder)
        /\ ~stream.end => /\ ~ret.ok
                          /\ ret.err = StructError
                          /\ ret.header = <<>>

\* a whole header followed by array bytes was decoded, the cursor left on the
\* first array byte
C22_Witness ==
    /\ NormalPath
    /\ stream.end
    /\ stream.tail > 0
    /\ ret.ok
    /\ Len(ret.header) = 2
    /\ ret.pos = Len(stream.bytes) - stream.tail

\* a stream cut inside its end sentinel made decode fail
C22_WitnessExhausted ==
    /\ NormalPath
    /\ ~stream.end
    /\ ~stream.intact
    /\ ~ret.ok
    /\ ret.err = StructError

\* ------------------------------------------------------------------------
\* Text-decoding errors after the first text value
\* ------------------------------------------------------------------------
\* the read of the first text value that stood: the first one, or the retry
\* when the first one raised a text-decoding error
Key0Read ==
    IF ~FirstRead.ok /\ FirstRead.err = UnicodeDecodeError THEN SecondRead
    ELSE FirstRead

\* a header stream was decoded, the first text value was read, and a later
\* key or text value raised a text-decoding error
LaterTextError ==
    /\ op = "bytes_to_dict"
    /\ stream.kind = "header"
    /\ Key0Read.ok
    /\ ~ret.ok
    /\ ret.err = UnicodeDecodeError

\* C23: a text-decoding error raised by a key or text value after the first
\* text value ends the call with that error: there is no retry for it (the
\* only retry a call can have made is the one of the first text value), the
\* byte-order directive stays the one the first text value was read with, the
\* cursor stays behind the first text value, and no header is returned.
C23_LaterTextErrorFatal ==
    LaterTextError =>
        /\ Retried = (IF FirstRead.ok THEN 0 ELSE 1)
        /\ ret.order = (IF FirstRead.ok THEN SwapOrder(args.swap)
                        ELSE SwapOrder(~args.swap))
        /\ ret.pos > Key0Read.pos
        /\ ret.header = <<>>

\* a text value after the start sentinel failed to decode: no retry was made
C23_Witness ==
    /\ LaterTextError
    /\ FirstRead.ok
    /\ FirstRead.val.s = HEADER_START
    /\ Retried = 0
    /\ ret.pos > Key0Read.pos

\* after the retry of the first text value a later text value failed to
\* decode: no second retry was made
C23_WitnessAfterRetry ==
    /\ LaterTextError
    /\ ~FirstRead.ok
    /\ Retried = 1

\* ------------------------------------------------------------------------
\* Array encoding with the element type left out
\* ------------------------------------------------------------------------
\* the dtype the claim expects: the one inferred from the data, its byte
\* order swapped under the swap directive
InferredDtype(src_fmt, swap) ==
    IF swap THEN newbyteorder(np_dtype(src_fmt)) ELSE np_dtype(src_fmt)

EncodedUntyped == op = "data_to_bytes" /\ args.fmt = "None"

\* C24 as stated: with the element type omitted every element is encoded with
\* the type inferred from the input data, under every byte-order directive;
\* the swap directive changes the byte order of each element only, not its
\* numeric kind or width.
C24_InferredTypeKept ==
    EncodedUntyped =>
        /\ EncodeDtype(args.data.fmt, args.fmt, args.swap).kind = np_dtype(args.data.fmt).kind
        /\ EncodeDtype(args.data.fmt, args.fmt, args.swap).itemsize
               = np_dtype(args.data.fmt).itemsize
        /\ ret.bytes = tobytes(asarray(args.data, InferredDtype(args.data.fmt, args.swap)),
                               args.order)

\* without swap the inferred type is kept
C24_KeptWithoutSwap ==
    EncodedUntyped /\ ~args.swap =>
        ret.bytes = tobytes(asarray(args.data, np_dtype(args.data.fmt)), args.order)

\* under swap every element is a big-endian float64, whatever the input was
C24_Float64UnderSwap ==
    EncodedUntyped /\ args.swap =>
        ret.bytes = tobytes(asarray(args.data, newbyteorder(np_dtype("<f8"))), args.order)

\* ------------------------------------------------------------------------
\* Properties of the sentinel entries of a header dict
\* ------------------------------------------------------------------------
Fixed == op = "fixed_header_start_end"

\* C25: the header fixed_header_start_end returns has the start sentinel as
\* its first key and the end sentinel as its last key, both with a Null
\* value, and between them the entries of the input whose key is no sentinel,
\* in their order and with their values; check_header_start_end of it is
\* (True, True), and fixing it once more returns an equal header.
C25_FixedHeader ==
    /\ Fixed =>
          /\ Len(ret.header) >= 2
          /\ ret.header[1] = [key |-> HEADER_START, value |-> Null]
          /\ ret.header[Len(ret.header)] = [key |-> HEADER_END, value |-> Null]
          /\ SubSeq(ret.header, 2, Len(ret.header) - 1) = NonSentinel(args.header)
    /\ Fixed /\ args.again => ret.header = args.header
    /\ op = "check_header_start_end" /\ args.fixed => ret.checks = <<"True", "True">>

\* a header whose sentinels were out of place and held values was fixed
C25_Witness ==
    /\ Fixed
    /\ ~args.again
    /\ args.check
    /\ check_header_start_end(args.header) = <<"False", "False">>
    /\ Len(NonSentinel(args.header)) >= 1
    /\ ret.header # args.header

\* a fixed header was fixed once more
C25_WitnessAgain == Fixed /\ args.again /\ Len(ret.header) > 2

\* a fixed header was checked
C25_WitnessChecked ==
    /\ op = "check_header_start_end"
    /\ args.fixed
    /\ Len(args.header) > 2

\* ------------------------------------------------------------------------
\* bytes_to_dict step by step: the first text value, then one iteration of
\* the while loop per step.  ret holds the position of the call: state is
\* AwaitStart, ReadingPairs, RecoveryReadingPairs, Done or Failed, pos the
\* cursor, header the dict so far.
\* ------------------------------------------------------------------------
\* the streams handed to the decoder: encoded headers, whole, without one or
\* both sentinels, followed by array bytes, damaged in the first text, cut
\* short, and the empty stream
Encoded == {dict_to_bytes(h, <<>>, FALSE).bytes : h \in Headers}

NoStart(bs) == SubSeq(bs, 4 + Len(HEADER_START) + 1, Len(bs))
NoEnd(bs) == SubSeq(bs, 1, Len(bs) - 4 - Len(HEADER_END))

LoopStreams ==
    Encoded
    \cup {NoStart(bs) : bs \in Encoded}
    \cup {NoEnd(bs) : bs \in Encoded}
    \cup {NoStart(NoEnd(bs)) : bs \in Encoded}
    \cup {bs \o TailBytes : bs \in Encoded}
    \cup {NoStart(bs) \o TailBytes : bs \in Encoded}
    \cup {[bs EXCEPT ![5] = 255] : bs \in Encoded}
    \cup {SubSeq(bs, 1, Len(bs) - n) : bs \in Encoded, n \in Cuts}
    \cup {<<>>}

Position(state, ok, header, pos, err, w, order) ==
    [state |-> state, ok |-> ok, header |-> header, pos |-> pos, err |-> err,
     warnings |-> w, order |-> order]

\* bytes_to_dict is entered with the stream bs
Enter(bs, km, sw) ==
    /\ op = "none"
    /\ op' = "bytes_to_dict"
    /\ stream' = [kind |-> "bytes", bytes |-> bs]
    /\ args' = [key_fmts |-> km, swap |-> sw]
    /\ ret' = Position("AwaitStart", FALSE, <<>>, 0, "", <<>>, SwapOrder(sw))
    /\ UNCHANGED <<files, heap>>

Failed(r, w, order) == Position("Failed", FALSE, <<>>, r.pos, r.err, w, order)

\* the first read, in the try
TryFirst(bs, swap) == my_decode(bs, 0, "str", SwapOrder(swap))

\* the read that gives key0, and the directive it was made with: the first
\* read, or the retry after a text-decoding error
ReadKey0(bs, swap, first) ==
    IF ~first.ok /\ first.err = UnicodeDecodeError
    THEN [key0 |-> my_decode(bs, 0, "str", RetryOrder(swap)), order |-> RetryOrder(swap),
          w |-> <<SwapWarning>>]
    ELSE [key0 |-> first, order |-> SwapOrder(swap), w |-> <<>>]

\* val0, read when key0 is not HEADER_START
ReadVal0(bs, key_fmts, r) ==
    IF r.key0.ok /\ r.key0.val.s # HEADER_START
    THEN my_decode(bs, r.key0.pos, FmtGet(key_fmts, r.key0.val.s, "float"), r.order)
    ELSE r.key0

\* where the call stands once the first text value is dealt with
AfterKey0(r, val0) ==
    IF ~r.key0.ok THEN Failed(r.key0, r.w, r.order)
    ELSE IF r.key0.val.s = HEADER_START
         THEN Position("ReadingPairs", FALSE, <<>>, r.key0.pos, "", r.w, r.order)
         ELSE IF ~val0.ok THEN Failed(val0, Append(r.w, StartWarning), r.order)
              ELSE Position("RecoveryReadingPairs", FALSE,
                            FirstPair(r.key0.val.s, val0.val), val0.pos, "",
                            Append(r.w, StartWarning), r.order)

\* the lines before the while loop: each read is made once
ReadStart ==
    /\ op = "bytes_to_dict"
    /\ ret.state = "AwaitStart"
    /\ \E first \in {TryFirst(stream.bytes, args.swap)} :
          \E r \in {ReadKey0(stream.bytes, args.swap, first)} :
             \E val0 \in {ReadVal0(stream.bytes, args.key_fmts, r)} :
                ret' = AfterKey0(r, val0)
    /\ UNCHANGED <<op, args, stream, files, heap>>

\* the value of the key k, read unless k failed or is HEADER_END
ReadVal(bs, key_fmts, order, k) ==
    IF k.ok /\ k.val.s # HEADER_END
    THEN my_decode(bs, k.pos, FmtGet(key_fmts, k.val.s, "float"), order)
    ELSE k

\* an iteration leaves the cursor where it found it
AfterPairInPlace(at, k, v) == at

\* where the call stands after the iteration that read k and v
AfterPair(at, k, v) ==
    IF ~k.ok THEN Failed(k, at.warnings, at.order)
    ELSE IF k.val.s = HEADER_END
         THEN [at EXCEPT !.state = "Done", !.ok = TRUE, !.pos = k.pos]
         ELSE IF ~v.ok THEN Failed(v, at.warnings, at.order)
              ELSE [at EXCEPT !.header = DictSet(@, k.val.s, v.val), !.pos = v.pos]

\* one iteration of the while loop that ends at the end of the stream
EndOfStream ==
    /\ op = "bytes_to_dict"
    /\ ret.state = "RecoveryReadingPairs"
    /\ Exhausted(stream.bytes, ret.pos)
    /\ ret' = [ret EXCEPT !.state = "Done", !.ok = TRUE]
    /\ UNCHANGED <<op, args, stream, files, heap>>

\* one iteration of the while loop that reads a key
ReadPair ==
    /\ op = "bytes_to_dict"
    /\ \/ ret.state = "ReadingPairs"
       \/ ret.state = "RecoveryReadingPairs" /\ ~Exhausted(stream.bytes, ret.pos)
    /\ \E k \in {my_decode(stream.bytes, ret.pos, "str", ret.order)} :
          \E v \in {ReadVal(stream.bytes, args.key_fmts, ret.order, k)} :
             ret' = AfterPair(ret, k, v)
    /\ UNCHANGED <<op, args, stream, files, heap>>

NextLoop ==
    \/ /\ op = "none"
       /\ \E bs \in LoopStreams, km \in {<<>>, header_types}, sw \in BOOLEAN :
             Enter(bs, km, sw)
    \/ ReadStart
    \/ EndOfStream
    \/ ReadPair

\* a call is made, and runs on until it returns or raises
SpecLoop == Init /\ [][NextLoop]_vars /\ WF_vars(NextLoop)

Ended == op = "bytes_to_dict" /\ ret.state \in {"Done", "Failed"}

\* C26: for every stream and every type map the decoder terminates, with Done
\* or with an error, on the normal path, on the recovery path and after the
\* retry; every iteration of the pair-reading loop consumes at least 4 bytes
\* of the stream or ends the loop.
C26_Terminates ==
    /\ <>Ended
    /\ [][op = "bytes_to_dict"
          /\ ret.state \in {"ReadingPairs", "RecoveryReadingPairs"} =>
             \/ ret'.state \in {"Done", "Failed"}
             \/ ret'.pos >= ret.pos + 4]_vars

\* the steps end where the call as a whole ends
C26_SameAsCall ==
    Ended =>
        [ok |-> ret.ok, header |-> ret.header, pos |-> ret.pos, err |-> ret.err,
         warnings |-> ret.warnings, order |-> ret.order]
            = bytes_to_dict(stream.bytes, 0, args.key_fmts, args.swap)

\* the loop ended after the retry, on the recovery path, with two pairs read
C26_Witness ==
    /\ op = "bytes_to_dict"
    /\ stream.kind = "bytes"
    /\ ret.state = "Done"
    /\ ret.warnings = <<SwapWarning, StartWarning>>
    /\ Len(ret.header) = 2

\* the loop ended on the normal path with two pairs read
C26_WitnessNormal ==
    /\ op = "bytes_to_dict"
    /\ stream.kind = "bytes"
    /\ ret.state = "Done"
    /\ ret.warnings = <<>>
    /\ Len(ret.header) = 2

\* the loop is inside its second iteration at least
C26_WitnessInLoop ==
    /\ op = "bytes_to_dict"
    /\ stream.kind = "bytes"
    /\ ret.state \in {"ReadingPairs", "RecoveryReadingPairs"}
    /\ ret.header # <<>>
    /\ ret.pos > 16

\* ------------------------------------------------------------------------
\* The length prefix of a text value
\* ------------------------------------------------------------------------
\* the unsigned number in the first 4 bytes of bs, in the byte order bo
PrefixOf(bs, bo) == LEToNat(Ordered(SubSeq(bs, 1, 4), bo))

\* a text value was packed
PackedText == op = "my_pack" /\ args.value.kind = "Text" /\ ret.ok

\* a packed text value was decoded from the bytes pack gave, none missing
DecodedText ==
    /\ op = "my_decode"
    /\ stream.kind = "value"
    /\ stream.value.kind = "Text"
    /\ stream.bytes = my_pack(stream.value, "None", stream.order).bytes

\* C27 as stated: the 4-byte length prefix pack writes for a text value is
\* the number of bytes of encoded text that follow it, also when characters
\* take more than one byte, so decode(pack(text)) returns the text and leaves
\* the cursor behind it.
C27_PrefixCountsBytes ==
    /\ PackedText =>
          PrefixOf(ret.bytes, my_fmt("str", args.order).bo) = Len(ret.bytes) - 4
    /\ DecodedText =>
          /\ ret.ok
          /\ ret.val = stream.value
          /\ ret.pos = Len(stream.bytes)

\* the prefix is the number of characters of the text
C27_PrefixCountsCharacters ==
    PackedText =>
        PrefixOf(ret.bytes, my_fmt("str", args.order).bo) = Len(args.value.s)

\* for text of single-byte characters the claim holds
C27_SingleByteText ==
    /\ PackedText /\ SingleByte(args.value.s) =>
          PrefixOf(ret.bytes, my_fmt("str", args.order).bo) = Len(ret.bytes) - 4
    /\ DecodedText /\ SingleByte(stream.value.s) =>
          /\ ret.ok
          /\ ret.val = stream.value
          /\ ret.pos = Len(stream.bytes)

\* ------------------------------------------------------------------------
\* Sentinel keys in a decoded header
\* ------------------------------------------------------------------------
HeaderDecoded == op = "bytes_to_dict" /\ stream.kind = "header" /\ ret.ok

\* C28 as stated: the header the decoder returns holds neither sentinel key
\* as an entry, on the normal path and on the recovery path.
C28_NoSentinelEntry ==
    HeaderDecoded => \A i \in DOMAIN ret.header : ret.header[i].key \notin Sentinels

\* on the normal path no entry has the end-sentinel key, the key that ends
\* the loop
C28_NoEndEntryOnNormalPath ==
    HeaderDecoded /\ NormalPath =>
        \A i \in DOMAIN ret.header : ret.header[i].key # HEADER_END

\* on the recovery path the first text value is stored as a key whatever it
\* is: the end sentinel became an entry
C28_EndSentinelStored ==
    /\ HeaderDecoded
    /\ Recovered
    /\ ret.header[1].key = HEADER_END

\* ------------------------------------------------------------------------
\* The retry on a stream whose cursor is not at 0
\* ------------------------------------------------------------------------
DecodedAtCursor == op = "bytes_to_dict(cursor)" /\ stream.kind = "header"

\* the same call on the header bytes alone, the cursor at 0
FromHeaderStart == bytes_to_dict(stream.bytes, 0, args.key_fmts, args.swap)

\* the call ended as the call on the header bytes alone ends, every position
\* moved by the preamble
SameFromCursor ==
    /\ ret.ok = FromHeaderStart.ok
    /\ ret.header = FromHeaderStart.header
    /\ ret.err = FromHeaderStart.err
    /\ ret.warnings = FromHeaderStart.warnings
    /\ ret.order = FromHeaderStart.order
    /\ ret.pos = FromHeaderStart.pos + args.cursor

\* C29 as stated: the retry after a text-decoding error on the first text
\* value re-reads from the position the stream had when decode was entered;
\* on a stream handed over with its cursor at a non-zero offset it re-reads
\* from that offset, not from offset 0.
C29_RetryFromEntry ==
    DecodedAtCursor /\ Retried = 1 => SameFromCursor

\* without a retry the position of the cursor at entry makes no difference
C29_SameWithoutRetry ==
    DecodedAtCursor /\ Retried = 0 => SameFromCursor

\* the retry read the preamble as the first text value
C29_RetryReadPreamble ==
    /\ DecodedAtCursor
    /\ Retried = 1
    /\ FromHeaderStart.ok
    /\ ~ret.ok

\* ------------------------------------------------------------------------
\* A writer whose encoding fails
\* ------------------------------------------------------------------------
\* write_filterbank was called and the header or the array did not encode
EncodingFailed == op = "write_filterbank" /\ ret.encoded /\ ~Encodes

\* C30: when the header or the array does not encode, write_filterbank fails
\* before the destination is opened: no file is created, the file at the
\* output path and every other file keep their contents, nothing is written
\* to a file object, for either value of overwrite.
C30_NothingOpened ==
    EncodingFailed =>
        /\ ~ret.ok
        /\ ret.err \in {StructError, TypeError, ValueError}
        /\ files = args.files
        /\ args.outfile.kind \in {"file", "bytesio"} => stream = args.outfile

\* the header did not encode, the file at the output path was there and
\* overwrite was set: the file is as it was
C30_Witness ==
    /\ EncodingFailed
    /\ ~dict_to_bytes(args.header, MergedTypes(args.key_fmts), args.swap).ok
    /\ args.outfile.kind = "path"
    /\ args.overwrite
    /\ args.files[args.outfile.path] = OldBytes
    /\ files[args.outfile.path] = OldBytes

\* the array did not encode and there was no file at the output path: there
\* is none after the call
C30_WitnessArray ==
    /\ EncodingFailed
    /\ ~Castable(args.data, args.fmt)
    /\ ret.err = ValueError
    /\ args.outfile.kind = "path"
    /\ files[args.outfile.path] = NoFile
====
